---- MODULE Spec2Model ----
(***************************************************************************)
(* Mention ledger, per-channel checkpoint and backfill of the ticker bot   *)
(* (super_pony/cmd_handlers/graphChannelHandler.mjs, super_pony/index.mjs). *)
(*                                                                         *)
(* Strings of digits (message ids, "snowflakes") are sequences of digits;  *)
(* BigInt() and toString() are the conversions between them and numbers.   *)
(* Times are counted in days; a message is created a day after the        *)
(* previous one and the clock reads a day after the newest message, plus  *)
(* the days the channel then stayed silent (idle).                        *)
(*                                                                         *)
(* A text is a sequence of characters (one-character strings; "alef"      *)
(* stands for one non-ASCII character, "dquote", "squote" and "bquote"    *)
(* for the three quote characters).                                       *)
(* The extractor is also run on its                                       *)
(* own over every short text (SpecExtract), and the ranking of the        *)
(* dashboard (tickersDashboard.mjs: mapLimit, computeGainers) on its own   *)
(* over every short candidate list (SpecGainers).                         *)
(***************************************************************************)
EXTENDS Integers, Sequences, FiniteSets, TLC

\* ---- bounds of the model ------------------------------------------------
NMsgs == 2          \* messages that can exist in the ticker channel
MaxRuns == 2        \* process starts (each start runs the backfill once)
WidePage == 2       \* page size of a fetch that can hold two messages
NLive == 3          \* messages that can exist in the ticker channel in one life
PageLimit == 1      \* page size of channel.messages.fetch (limit: 100)
MaxFaults == 1      \* ledger reads and writes that fail (under SpecFault)
MaxItems == 4       \* candidates handed to computeGainers
MaxText == 3        \* characters of a text handed to extractTickers on its own
MaxWords == 3       \* words of a phrase handed to extractTickers on its own
MaxEntries == 3     \* records of a ledger that a query reads
MaxCommitFails == 2 \* runs of commitDbIfChanged in which git fails (under SpecCommitFault)
NLog == 4           \* messages that can exist in the chat room of the context log
LogPageLimit == 2   \* page size of the fetch of backfillLastDayMessages (limit: 100)
MaxLogRuns == 2     \* runs of backfillLastDayMessages
MaxCallers == 2     \* calls of loadTickerSet that can be in flight together
MaxCalls == 3       \* calls of loadTickerSet and of getBlacklistSet
MaxMirror == 2      \* messages that deleteAndRepost is called for
MaxEdits == 2       \* changes of the reference files and of the environment
MaxIdle == 14       \* days the channel stays silent before the process starts

\* ---- program constants (scaled where TLC's integers are too narrow) -----
DISCORD_EPOCH == 100     \* 1420070400000n in the source; time origin of ids
SNOWFLAKE_SHIFT == 22    \* << 22n
Lookback == 14           \* lookbackDays: 14; the model's time unit is a day
LimitTickers == 3        \* limitTickers: 25 (200, 300) in the source
Concurrency == 2         \* concurrency: 3 (4) in the source

MonthStart == 2          \* startOfMonthUTC(): the day the month of the dashboard starts
Infinity == 99           \* Infinity: above every time of the model

LogLookback == 20        \* 10 * 24 * 60 * 60 * 1000 ms in the source; here in hours
TzOffset == 2            \* Asia/Jerusalem: hours ahead of UTC
DayHours == 24           \* hours of a calendar day

GRAPHS == "graphs"       \* GRAPHS_CHANNEL_ID
OLD == "old"             \* a channel that was the ticker channel before
Channels == {GRAPHS, OLD}

VARIABLES
  posted,       \* messages 1..posted exist in the ticker channel
  up,           \* the process is running
  runs,         \* process starts so far
  file,         \* the ledger file db.json
  gitHead,      \* the ledger document last committed and pushed
  writeQueue,   \* operations chained on the writeQueue promise, oldest first
  rejected,     \* the promise chain has been rejected by a failed operation
  live,         \* live[m]: position of the messageCreate handler of message m
  bf,           \* the backfill run (runBackfillOnce)
  readFails,    \* ledger reads that have failed so far
  writeFails,   \* ledger writes that have failed so far
  firstStart,   \* history: start cursor of the first backfill run
  advDone,      \* history: ids of the checkpoint advances that completed
  appDone,      \* history: records handed to appends that completed
  completed,    \* history: backfill runs that reached their end
  idle,         \* days between the newest message and the start of the process
  tickersFile,  \* all_tickers.txt exists
  _tickerSet,   \* the module's cache of the ticker set is filled
  commitFails,  \* history: runs of commitDbIfChanged in which git failed
  items,        \* computeGainers: the candidates it was called with
  pool,         \* computeGainers / mapLimit: the worker pool of the call
  text,         \* extractTickers: the text it was called with
  found,        \* extractTickers: its result
  dbRaw,        \* the queries: the content of the ledger file they read
  reply,        \* the queries: the operation that ran and what it did
  chat,         \* context log: messages 1..chat exist in the chat room
  clock,        \* context log: the time, in hours
  logLive,      \* context log: logLive[m]: the appendToLog of message m
  logFiles,     \* context log: logFiles[d]: the records of the file of day d
  logRun,       \* context log: the run of backfillLastDayMessages
  refFiles,     \* reference data: refFiles[p]: the ticker file at path p
  tickerCache,  \* reference data: _tickerSet and _tickerFilePath
  blacklistEnv, \* reference data: process.env.TICKER_BLACKLIST
  blacklistCache, \* reference data: _blacklistSet
  loads,        \* reference data: loads[c]: the call of loadTickerSet by caller c
  refLog,       \* reference data, history: file reads, builds and calls so far
  mirror,       \* mirror[i]: the call of deleteAndRepost for message i
  route         \* the message router: the message in hand and where it went

ledgerVars == <<posted, up, runs, file, gitHead, writeQueue, rejected, live, bf,
                readFails, writeFails, firstStart, advDone, appDone, completed,
                idle, tickersFile, _tickerSet, commitFails>>

gainerVars == <<items, pool>>
extractVars == <<text, found>>
queryVars == <<dbRaw, reply>>
logVars == <<chat, clock, logLive, logFiles, logRun>>
cacheVars == <<refFiles, tickerCache, blacklistEnv, blacklistCache, loads, refLog>>

\* the components that are modelled on their own, beside the ones above
auxVars == <<cacheVars, mirror, route>>

\* what the ledger and the backfill leave alone while git works: the other
\* components, the clock's offset and the reference file
otherVars == <<gainerVars, extractVars, queryVars, logVars, auxVars, idle, tickersFile, commitFails>>

vars == <<ledgerVars, gainerVars, extractVars, queryVars, logVars, auxVars>>

\* ---- helpers --------------------------------------------------------------
Range(s) == {s[i] : i \in DOMAIN s}

RemoveAt(s, i) == [k \in 1..(Len(s) - 1) |-> IF k < i THEN s[k] ELSE s[k + 1]]

RECURSIVE Pow2(_)
Pow2(n) == IF n = 0 THEN 1 ELSE 2 * Pow2(n - 1)

\* n.toString() of a non-negative integer: its decimal digits
RECURSIVE ToDigits(_)
ToDigits(n) == IF n < 10 THEN <<n>> ELSE Append(ToDigits(n \div 10), n % 10)

\* BigInt(s) of a string of decimal digits
RECURSIVE BigInt(_)
BigInt(s) ==
  IF Len(s) = 0 THEN 0
  ELSE BigInt(SubSeq(s, 1, Len(s) - 1)) * 10 + s[Len(s)]

\* s > t on strings (JavaScript compares strings code unit by code unit)
RECURSIVE StrGt(_, _)
StrGt(s, t) ==
  IF Len(s) = 0 THEN FALSE
  ELSE IF Len(t) = 0 THEN TRUE
  ELSE IF s[1] # t[1] THEN s[1] > t[1]
  ELSE StrGt(Tail(s), Tail(t))

NoId == <<>>   \* undefined / missing id (falsy)

\* ---- texts ------------------------------------------------------------------
AAPL == <<"A", "A", "P", "L">>
TSLA == <<"T", "S", "L", "A">>
IT == <<"I", "T">>
HELLO == <<"H", "E", "L", "L", "O">>
SPACE == <<" ">>

\* ---- the ticker channel ---------------------------------------------------
\* The messages that can be posted, oldest first: creation time, the low
\* (non-time) bits of the id, author, whether the author is a bot, whether
\* the message addresses the assistant, and its (trimmed) text.
Messages == <<
  [ts |-> 123, inc |-> 0, author |-> "u1", bot |-> FALSE, mentionsBot |-> FALSE,
   content |-> AAPL \o SPACE \o AAPL],
  [ts |-> 124, inc |-> 1, author |-> "u2", bot |-> FALSE, mentionsBot |-> FALSE,
   content |-> TSLA \o SPACE \o IT],
  [ts |-> 125, inc |-> 0, author |-> "u1", bot |-> FALSE, mentionsBot |-> TRUE,
   content |-> AAPL],
  [ts |-> 126, inc |-> 0, author |-> "bot", bot |-> TRUE, mentionsBot |-> FALSE,
   content |-> TSLA],
  [ts |-> 127, inc |-> 0, author |-> "u2", bot |-> FALSE, mentionsBot |-> FALSE,
   content |-> HELLO],
  [ts |-> 127, inc |-> 1, author |-> "u1", bot |-> FALSE, mentionsBot |-> FALSE,
   content |-> AAPL],
  [ts |-> 128, inc |-> 0, author |-> "u2", bot |-> FALSE, mentionsBot |-> FALSE,
   content |-> TSLA] >>

MsgIx == 1..NMsgs
AllMsgs == 1..Len(Messages)

\* all_tickers.txt, one (upper-case) symbol a line
TickerSet == {AAPL, TSLA, IT, <<"A">>, <<"B">>, <<"A", "B">>, <<"A", ".", "B">>}

\* TICKER_BLACKLIST
BlacklistSet == {IT, <<"B">>}

\* message.id: the creation time above the low 22 bits
MsgId(m) ==
  ToDigits((Messages[m].ts - DISCORD_EPOCH) * Pow2(SNOWFLAKE_SHIFT) + Messages[m].inc)

MsgIds == <<MsgId(1), MsgId(2), MsgId(3), MsgId(4), MsgId(5), MsgId(6), MsgId(7)>>

\* Date.now(): a day after the creation of the newest message, and the days
\* that passed without one
Now == (IF posted = 0 THEN Messages[1].ts ELSE Messages[posted].ts + 1) + idle

\* ---- the extractor --------------------------------------------------------
\* character classes of TICKER_RE and TICKER_RE_FALLBACK
UpperLetters == {"A", "B", "E", "H", "I", "L", "O", "P", "S", "T"}
LowerLetters == {"a", "b"}
Letters == UpperLetters \cup LowerLetters                 \* [A-Za-z]
Digits == {"7"}                                           \* [0-9]
NonAscii == {"alef"}                                      \* [^\x00-\x7F]
\* the class of the left boundary: white space, quotes, opening brackets
LeftClass == {" ", "dquote", "squote", "bquote", "(", "[", "{", "<"}
\* the class of the right boundary: white space, quotes, closing brackets,
\* punctuation (and no slash)
RightClass == {" ", "dquote", "squote", "bquote", ")", "]", "}", ">",
               ".", ",", ":", ";", "!", "?"}
JoinClass == {".", "-"}                                   \* [.\-]

IsLetter(c) == c \in Letters
AlphaNum(c) == c \in Letters \cup Digits                  \* [A-Za-z0-9]

\* the left boundary that a match consumes (after the alternative ^)
LeftBoundary(c, primary) ==
  IF primary THEN c \in LeftClass \cup NonAscii ELSE ~AlphaNum(c)

\* the lookahead (?=$|...) after a group that ends at index e
Lookahead(t, e, primary) ==
  \/ e = Len(t)
  \/ IF primary THEN t[e + 1] \in RightClass \cup NonAscii ELSE ~AlphaNum(t[e + 1])

\* [A-Za-z]{n} at index q
LettersRun(t, q, n) == q + n - 1 <= Len(t) /\ \A k \in q..(q + n - 1) : IsLetter(t[k])

\* [A-Za-z]{n}(?:[.\-][A-Za-z]{k})? at index q (k = 0: no suffix) followed by
\* the lookahead
Fits(t, q, n, k, primary) ==
  /\ LettersRun(t, q, n)
  /\ k > 0 => /\ q + n <= Len(t)
              /\ t[q + n] \in JoinClass
              /\ LettersRun(t, q + n + 1, k)
  /\ Lookahead(t, IF k = 0 THEN q + n - 1 ELSE q + n + k, primary)

\* the backtracking of ([A-Za-z]{1,5}(?:[.\-][A-Za-z]{1,2})?) at index q from
\* a run of n letters with a suffix of k letters on: both quantifiers are
\* greedy, so for a run the longest suffix comes first, then no suffix, then
\* the next shorter run. The index of the last character of the group, 0 when
\* nothing fits.
RECURSIVE Backtrack(_, _, _, _, _)
Backtrack(t, q, n, k, primary) ==
  IF n = 0 THEN 0
  ELSE IF Fits(t, q, n, k, primary) THEN (IF k = 0 THEN q + n - 1 ELSE q + n + k)
  ELSE IF k > 0 THEN Backtrack(t, q, n, k - 1, primary)
  ELSE Backtrack(t, q, n - 1, 2, primary)

\* the group at index q followed by the lookahead: the index of its last
\* character, 0 when it does not match
GroupEnd(t, q, primary) == Backtrack(t, q, 5, 2, primary)

NoMatch == [s |-> 0, e |-> 0]

\* the group at index g: where it starts and ends
GroupAt(t, g, primary) ==
  CHOOSE r \in {IF e = 0 THEN NoMatch ELSE [s |-> g, e |-> e] : e \in {GroupEnd(t, g, primary)}} :
    TRUE

\* \$? and the group, at index q
DollarGroup(t, q, primary) ==
  GroupAt(t, IF q <= Len(t) /\ t[q] = "$" THEN q + 1 ELSE q, primary)

\* a match of the pattern that starts at index p: the alternative ^ first, then
\* the alternative that consumes one boundary character
MatchAt(t, p, primary) ==
  CHOOSE r \in
    { IF atStart # NoMatch THEN atStart
      ELSE IF p <= Len(t) /\ LeftBoundary(t[p], primary) THEN DollarGroup(t, p + 1, primary)
      ELSE NoMatch
      : atStart \in {IF p = 1 THEN DollarGroup(t, 1, primary) ELSE NoMatch} } : TRUE

\* RegExp.prototype.exec from lastIndex: the leftmost match at or after it
RECURSIVE Exec(_, _, _)
Exec(t, lastIndex, primary) ==
  IF lastIndex > Len(t) THEN NoMatch
  ELSE CHOOSE r \in
         { IF m # NoMatch THEN m ELSE Exec(t, lastIndex + 1, primary)
           : m \in {MatchAt(t, lastIndex, primary)} } : TRUE

toUpperCase(c) == IF c = "a" THEN "A" ELSE IF c = "b" THEN "B" ELSE c

\* m[1].toUpperCase().replace(/-/g, ".")
Normalize(g) == [k \in 1..Len(g) |-> IF g[k] = "-" THEN "." ELSE toUpperCase(g[k])]

\* a test that does not look at the blacklist
AcceptListed(cand, tickerSet) == cand \in tickerSet

\* tickerSet.has(cand) && !blacklistSet.has(cand)
Accept(cand, tickerSet) == cand \in tickerSet /\ cand \notin BlacklistSet

\* a result that is a list and not a Set: every accepted candidate is added
AppendFound(have, cand, tickerSet) ==
  IF Accept(cand, tickerSet) THEN Append(have, cand) ELSE have

\* if (tickerSet.has(cand) && !blacklistSet.has(cand)) found.add(cand)
AddFound(have, cand, tickerSet) ==
  IF Accept(cand, tickerSet) /\ cand \notin Range(have) THEN Append(have, cand) ELSE have

\* while ((m = RE.exec(text)) !== null) { ... }; m ranges over the one match
\* that exec returns, h over the one set that the body leaves
RECURSIVE Scan(_, _, _, _, _)
Scan(t, lastIndex, tickerSet, have, primary) ==
  CHOOSE r \in
    { IF m = NoMatch THEN have
      ELSE CHOOSE w \in
             { Scan(t, m.e + 1, tickerSet, h, primary)
               : h \in {AddFound(have, Normalize(SubSeq(t, m.s, m.e)), tickerSet)} } : TRUE
      : m \in {Exec(t, lastIndex, primary)} } : TRUE

\* Extract possible tickers and validate against the Set + blacklist
extractTickers(t, tickerSet) ==
  IF t = <<>> THEN <<>>
  ELSE CHOOSE r \in
         { IF main # <<>> THEN main ELSE Scan(t, 1, tickerSet, <<>>, FALSE)
           : main \in {Scan(t, 1, tickerSet, <<>>, TRUE)} } : TRUE

\* the tickers of the messages of the channel
MsgTickers ==
  <<extractTickers(Messages[1].content, TickerSet),
    extractTickers(Messages[2].content, TickerSet),
    extractTickers(Messages[3].content, TickerSet),
    extractTickers(Messages[4].content, TickerSet),
    extractTickers(Messages[5].content, TickerSet),
    extractTickers(Messages[6].content, TickerSet),
    extractTickers(Messages[7].content, TickerSet)>>

\* ---- the ledger document ----------------------------------------------------
NoCp == [lastProcessedId |-> NoId, lastProcessedAt |-> 0]

EmptyDoc == [updated |-> 0, entries |-> <<>>, checkpoints |-> [c \in Channels |-> NoCp]]

\* the file on disk: absent, or holding a document; array: the file holds the
\* legacy shape, a bare array of records (doc.entries), and nothing else
NoFile == [present |-> FALSE, array |-> FALSE, doc |-> EmptyDoc]

\* a document that is read as empty whatever the file holds
loadDbEmpty(f, failed) == EmptyDoc

\* a load that takes a bare array for a document without records
loadDbObjectOnly(f, failed) == IF failed \/ ~f.present \/ f.array THEN EmptyDoc ELSE f.doc

\* loadDb: the parsed document; a bare array becomes the entries of a fresh
\* document without checkpoints; the empty document when the read or the
\* parse fails (failed = TRUE) or the file is missing
loadDb(f, failed) ==
  IF failed \/ ~f.present THEN EmptyDoc
  ELSE IF f.array
  THEN [updated |-> 0, entries |-> f.doc.entries, checkpoints |-> [c \in Channels |-> NoCp]]
  ELSE f.doc

\* saveDb: the whole document overwrites the file
saveDb(db) == [present |-> TRUE, array |-> FALSE, doc |-> db]

\* the MentionRecords handleGraphChannelMessage builds for message m
EntriesOf(m) ==
  LET tickers == MsgTickers[m]
  IN [k \in 1..Len(tickers) |->
        [ticker |-> tickers[k], user |-> Messages[m].author, messageId |-> MsgIds[m],
         channelId |-> GRAPHS, timestamp |-> Messages[m].ts]]

Key(e) == <<e.messageId, e.ticker>>
Keys(es) == {Key(es[i]) : i \in DOMAIN es}

\* a loop without the dedupe: every entry is pushed, seen or not
PushAll(have, batch) == have \o batch

\* the loop of appendEntries: push every entry whose key is not yet there
RECURSIVE PushNew(_, _)
PushNew(have, batch) ==
  IF batch = <<>> THEN have
  ELSE PushNew(IF Key(Head(batch)) \in Keys(have) THEN have ELSE Append(have, Head(batch)),
               Tail(batch))

\* a save that does not look at added
ShouldSaveAlways(added) == added >= 0

\* appendEntries writes only when added > 0
ShouldSave(added) == added > 0

\* a comparison of the ids as strings (a > b without BigInt)
snowflakeGtString(a, b) == IF b = NoId THEN TRUE ELSE StrGt(a, b)

\* Compare two snowflake strings (by BigInt)
snowflakeGt(a, b) == IF b = NoId THEN TRUE ELSE BigInt(a) > BigInt(b)

\* updateCheckpoint advances only to a newer id
ShouldAdvance(msgId, cp) == cp.lastProcessedId = NoId \/ snowflakeGt(msgId, cp.lastProcessedId)

\* a conversion that leaves the epoch in
snowflakeFromTsMsNoEpoch(ts) == ToDigits(ts * Pow2(SNOWFLAKE_SHIFT))

\* Convert timestamp (ms) -> synthetic snowflake string
snowflakeFromTsMs(ts) == ToDigits((ts - DISCORD_EPOCH) * Pow2(SNOWFLAKE_SHIFT))

\* a start from the lookback cutoff whatever the checkpoint
ResolveStartLookback(cp, now) == snowflakeFromTsMs(now - Lookback)

\* the cursor runBackfillOnce starts from
ResolveStart(cp, now) ==
  IF cp.lastProcessedId # NoId THEN cp.lastProcessedId
  ELSE snowflakeFromTsMs(now - Lookback)

\* ---- the chat platform ------------------------------------------------------
\* a fetch that returns the message of the cursor again (after: inclusive)
FetchFrom(after, limit) ==
  LET cand == {m \in 1..posted : BigInt(MsgIds[m]) >= BigInt(after)}
      lo == CHOOSE m \in cand : \A k \in cand : m <= k
      got == {m \in cand : m < lo + limit}
      hi == lo + Cardinality(got) - 1
  IN IF cand = {} THEN <<>> ELSE [k \in 1..Cardinality(got) |-> hi - k + 1]

\* channel.messages.fetch({limit, after}): the (at most) limit oldest messages
\* with an id above `after`, newest first
FetchAfter(after, limit) ==
  LET cand == {m \in 1..posted : BigInt(MsgIds[m]) > BigInt(after)}
      lo == CHOOSE m \in cand : \A k \in cand : m <= k
      got == {m \in cand : m < lo + limit}
      hi == lo + Cardinality(got) - 1
  IN IF cand = {} THEN <<>> ELSE [k \in 1..Cardinality(got) |-> hi - k + 1]

\* Array.prototype.sort by createdTimestamp (stable)
RECURSIVE InsertByTs(_, _)
InsertByTs(sorted, m) ==
  IF sorted = <<>> THEN <<m>>
  ELSE IF Messages[m].ts < Messages[Head(sorted)].ts THEN <<m>> \o sorted
  ELSE <<Head(sorted)>> \o InsertByTs(Tail(sorted), m)

RECURSIVE SortByTs(_)
SortByTs(batch) ==
  IF batch = <<>> THEN <<>>
  ELSE InsertByTs(SortByTs(SubSeq(batch, 1, Len(batch) - 1)), batch[Len(batch)])

\* ---- queued operations --------------------------------------------------------
\* owner 0 is the backfill run, owner m > 0 the live handler of message m
AppendOp(owner, m) ==
  [owner |-> owner, kind |-> "append", msg |-> m, entries |-> EntriesOf(m),
   channelId |-> GRAPHS, msgId |-> NoId, tsIso |-> 0, loaded |-> FALSE, db |-> EmptyDoc]

CheckpointOp(owner, m) ==
  [owner |-> owner, kind |-> "checkpoint", msg |-> m, entries |-> <<>>,
   channelId |-> GRAPHS, msgId |-> MsgIds[m], tsIso |-> Messages[m].ts,
   loaded |-> FALSE, db |-> EmptyDoc]

\* queues that do not serialize: an operation starts while the one before it is
\* still running; operations start without waiting for each other
CanStartTwo(i) == i <= 2
CanStartAny(i) == i >= 1

\* writeQueue = writeQueue.then(...): an operation starts when every operation
\* chained before it has settled
CanStart(i) == i = 1

\* no call of computeGainers, no call of extractTickers
PoolIdle == [pc |-> "idle", mode |-> "oc", subset |-> <<>>, i |-> 0, active |-> 0,
             running |-> {}, results |-> <<>>, out |-> <<>>]
NotRun == << <<"not run">> >>
\* the ledger file as the queries find it (kind: missing, empty, invalid,
\* noentries, object, array) and no query
NoRaw == [kind |-> "missing", entries |-> <<>>]
NoReply == [op |-> "none", pc |-> "idle", byTicker |-> <<>>, firstByUserCounts |-> <<>>,
            sent |-> "nothing"]

\* ---- the context log: utils/liveLog.mjs ------------------------------------------
\* The messages that can be posted in the chat room, oldest first; the id of
\* message m is m. Message 3 is created at 23:00 and message 4 at 00:00 of
\* the next day, local time.
LogMsgs == <<
  [createdAt |-> 1, bot |-> FALSE, content |-> "text"],
  [createdAt |-> 20, bot |-> FALSE, content |-> "emoji"],
  [createdAt |-> 21, bot |-> FALSE, content |-> "text"],
  [createdAt |-> 22, bot |-> FALSE, content |-> "text"],
  [createdAt |-> 23, bot |-> TRUE, content |-> "text"] >>

LogIx == 1..NLog

\* israelDateString: the calendar day of a time in the fixed time zone
israelDateString(t) == (t + TzOffset) \div DayHours

LogDays == 0..israelDateString(LogMsgs[Len(LogMsgs)].createdAt)

\* shouldLogMessage: not for empty text, emojis only or a GIF link
shouldLogMessage(m) == LogMsgs[m].content \notin {"", "emoji", "tenor"}

\* msgLink: https://discord.com/channels/<guild>/<channel>/<id>
MsgLink(m) == <<"channels", "guild", "room", m>>

\* o.msgLink.split("/").pop()
LinkId(link) == link[Len(link)]

\* the record of message m
LogRecord(m) == [msgLink |-> MsgLink(m), createdAt |-> LogMsgs[m].createdAt]

\* the ids of the records of a day file
IdsIn(records) == {LinkId(records[i].msgLink) : i \in DOMAIN records}

\* channel.messages.fetch({limit, before}): the (at most) limit newest
\* messages with an id below `before` (0: no bound), newest first
FetchBefore(before, limit) ==
  LET hi == IF before = 0 THEN chat ELSE before - 1
      n == IF hi < limit THEN hi ELSE limit
  IN [k \in 1..n |-> hi - k + 1]

HasBucket(buckets, key) == \E i \in DOMAIN buckets : buckets[i].key = key
BucketIx(buckets, key) == CHOOSE i \in DOMAIN buckets : buckets[i].key = key

\* ensureBucketFor: the bucket of the day, made from the ids of the day file
\* when the run meets the day for the first time
ensureBucketFor(buckets, key) ==
  IF HasBucket(buckets, key) THEN buckets
  ELSE Append(buckets, [key |-> key, existingIds |-> IdsIn(logFiles[key]),
                        loaded |-> IdsIn(logFiles[key]), records |-> <<>>])

\* a loop that stages every message, known or not
StageAlways(bucket, m) ==
  [bucket EXCEPT !.records = Append(@, LogRecord(m)), !.existingIds = @ \cup {m}]

\* if (bucket.existingIds.has(msgId)) continue; ... records.push(rec);
\* existingIds.add(msgId)
Stage(bucket, m) ==
  IF m \in bucket.existingIds THEN bucket
  ELSE [bucket EXCEPT !.records = Append(@, LogRecord(m)), !.existingIds = @ \cup {m}]

LogIdle == [pc |-> "idle", n |-> 0, cutoff |-> 0, lastId |-> 0, page |-> <<>>, last |-> 0,
            buckets |-> <<>>, w |-> 1, total |-> 0, disturbed |-> FALSE]

InitLog ==
  /\ chat = 0
  /\ clock = 0
  /\ logLive = [m \in LogIx |-> "none"]
  /\ logFiles = [d \in LogDays |-> <<>>]
  /\ logRun = LogIdle

\* something happens in the chat room or in its files after the first run
\* has started
Disturb(run) == IF run.n > 0 THEN [run EXCEPT !.disturbed = TRUE] ELSE run

\* A user posts the next message; the message router hands it to appendToLog
\* when the process hears it and its author is not a bot.
ChatPost ==
  /\ chat < NLog
  /\ chat' = chat + 1
  /\ clock' = LogMsgs[chat + 1].createdAt
  /\ \E heard \in BOOLEAN :
       logLive' = IF heard /\ ~LogMsgs[chat + 1].bot
                  THEN [logLive EXCEPT ![chat + 1] = "pending"]
                  ELSE logLive
  /\ logRun' = Disturb(logRun)
  /\ UNCHANGED <<ledgerVars, gainerVars, extractVars, queryVars, auxVars, logFiles>>

\* appendToLog: the record goes to the file of the day of the write
LiveAppend(m) ==
  /\ logLive[m] = "pending"
  /\ logLive' = [logLive EXCEPT ![m] = "done"]
  /\ IF shouldLogMessage(m)
     THEN /\ logFiles' = [logFiles EXCEPT ![israelDateString(clock)] = Append(@, LogRecord(m))]
          /\ logRun' = Disturb(logRun)
     ELSE UNCHANGED <<logFiles, logRun>>
  /\ UNCHANGED <<ledgerVars, gainerVars, extractVars, queryVars, auxVars, chat, clock>>

\* backfillLastDayMessages is called
LogStart ==
  /\ logRun.pc \in {"idle", "done"}
  /\ logRun.n < MaxLogRuns
  /\ logRun' = [LogIdle EXCEPT !.pc = "fetch", !.n = logRun.n + 1,
                               !.cutoff = clock - LogLookback,
                               !.disturbed = logRun.disturbed]
  /\ UNCHANGED <<ledgerVars, gainerVars, extractVars, queryVars, auxVars, chat, clock, logLive, logFiles>>

\* const messages = await channel.messages.fetch(options)
LogFetch ==
  /\ logRun.pc = "fetch"
  /\ LET messages == FetchBefore(logRun.lastId, LogPageLimit)
     IN logRun' = IF messages = <<>> THEN [logRun EXCEPT !.pc = "write"]
                  ELSE [logRun EXCEPT !.pc = "msg", !.page = messages,
                                      !.last = messages[Len(messages)]]
  /\ UNCHANGED <<ledgerVars, gainerVars, extractVars, queryVars, auxVars, chat, clock, logLive, logFiles>>

\* the end of the for loop over a page: lastId = messages.last().id
NextLogMessage(run) ==
  IF Tail(run.page) = <<>>
  THEN [run EXCEPT !.page = <<>>, !.pc = "fetch", !.lastId = run.last]
  ELSE [run EXCEPT !.page = Tail(run.page)]

\* one turn of the for loop
LogMessage ==
  /\ logRun.pc = "msg"
  /\ LET m == Head(logRun.page)
         key == israelDateString(LogMsgs[m].createdAt)
         buckets == ensureBucketFor(logRun.buckets, key)
         i == BucketIx(buckets, key)
     IN logRun' =
          IF LogMsgs[m].createdAt < logRun.cutoff
          THEN [logRun EXCEPT !.page = <<>>, !.pc = "write"]
          ELSE IF LogMsgs[m].bot \/ ~shouldLogMessage(m)
          THEN NextLogMessage(logRun)
          ELSE NextLogMessage([logRun EXCEPT !.buckets = [buckets EXCEPT ![i] = Stage(@, m)]])
  /\ UNCHANGED <<ledgerVars, gainerVars, extractVars, queryVars, auxVars, chat, clock, logLive, logFiles>>

\* the buckets from index w on that have records
ToWrite(run) == {i \in DOMAIN run.buckets : i >= run.w /\ run.buckets[i].records # <<>>}

\* the loop that writes: fs.appendFile of the next bucket that has records
LogWrite ==
  /\ logRun.pc = "write"
  /\ ToWrite(logRun) # {}
  /\ LET i == CHOOSE j \in ToWrite(logRun) : \A k \in ToWrite(logRun) : j <= k
         b == logRun.buckets[i]
     IN /\ logFiles' = [logFiles EXCEPT ![b.key] = @ \o b.records]
        /\ logRun' = [logRun EXCEPT !.w = i + 1, !.total = @ + Len(b.records)]
  /\ UNCHANGED <<ledgerVars, gainerVars, extractVars, queryVars, auxVars, chat, clock, logLive>>

\* every bucket is written: the run ends
LogDone ==
  /\ logRun.pc = "write"
  /\ ToWrite(logRun) = {}
  /\ logRun' = [logRun EXCEPT !.pc = "done"]
  /\ UNCHANGED <<ledgerVars, gainerVars, extractVars, queryVars, auxVars, chat, clock, logLive, logFiles>>

NextLog ==
  \/ ChatPost
  \/ \E m \in LogIx : LiveAppend(m)
  \/ LogStart
  \/ LogFetch
  \/ LogMessage
  \/ LogWrite
  \/ LogDone

\* ---- the reference data: loadTickerSet, getBlacklistSet --------------------------
\* A text file is a sequence of lines, a line a sequence of characters.
Paths == {"p1", "p2"}
Callers == 1..MaxCallers

RefTexts == {<<>>, << <<"a">> >>, << <<"A">>, <<>>, <<" ", "b", " ">> >>}

NoRefFile == [exists |-> FALSE, txt |-> <<>>]
RefFile(txt) == [exists |-> TRUE, txt |-> txt]

\* String.prototype.trim
RECURSIVE TrimLeft(_)
TrimLeft(str) == IF str # <<>> /\ Head(str) = " " THEN TrimLeft(Tail(str)) ELSE str

RECURSIVE TrimRight(_)
TrimRight(str) ==
  IF str # <<>> /\ str[Len(str)] = " " THEN TrimRight(SubSeq(str, 1, Len(str) - 1)) ELSE str

Trim(str) == TrimRight(TrimLeft(str))

\* s.trim().toUpperCase()
TrimUpper(str) == [k \in DOMAIN Trim(str) |-> toUpperCase(Trim(str)[k])]

\* txt.split(/\r?\n/).map(trim, toUpperCase).filter(Boolean) as a Set
ParseTickers(txt) == {TrimUpper(txt[i]) : i \in DOMAIN txt} \ {<<>>}

\* values of process.env.TICKER_BLACKLIST: not set, blank, a list
NoEnv == [set |-> FALSE, raw |-> <<>>]
EnvValues == {NoEnv, [set |-> TRUE, raw |-> <<" ">>], [set |-> TRUE, raw |-> <<"a", ";", " ", "b">>],
              [set |-> TRUE, raw |-> <<"b">>]}

Separators == {" ", ",", ";"}

\* raw.split(/[\s,;]+/): the pieces between runs of separators (an empty piece
\* where the text starts or ends with a separator)
RECURSIVE Split(_, _, _)
Split(raw, piece, inRun) ==
  IF raw = <<>> THEN <<piece>>
  ELSE IF Head(raw) \in Separators
  THEN IF inRun THEN Split(Tail(raw), piece, TRUE)
       ELSE <<piece>> \o Split(Tail(raw), <<>>, TRUE)
  ELSE Split(Tail(raw), Append(piece, Head(raw)), FALSE)

\* the body of getBlacklistSet when nothing is cached: DEFAULT_BLACKLIST is
\* not defined, so its use throws a ReferenceError
BuildBlacklist(env) ==
  LET useEnv == env.set /\ Trim(env.raw) # <<>>
      list == Split(env.raw, <<>>, FALSE)
  IN [throws |-> ~useEnv,
      set |-> IF useEnv THEN {TrimUpper(list[i]) : i \in DOMAIN list} \ {<<>>} ELSE {}]

NoCache == [filled |-> FALSE, set |-> {}, path |-> "none"]
NoBlacklist == [filled |-> FALSE, set |-> {}]
NoLoad == [pc |-> "idle", path |-> "none", result |-> {}, hit |-> FALSE]
NoRefLog == [reads |-> 0, builds |-> 0, calls |-> 0, edits |-> 0, blacklist |-> "none",
             last |-> <<0, "none">>]

InitCache ==
  /\ refFiles = [p \in Paths |-> IF p = "p1" THEN RefFile(<< <<"a">> >>) ELSE NoRefFile]
  /\ tickerCache = NoCache
  /\ blacklistEnv = NoEnv
  /\ blacklistCache = NoBlacklist
  /\ loads = [c \in Callers |-> NoLoad]
  /\ refLog = NoRefLog


\* a test of the cache that forgets the path
CacheHitAnyPath(cache, path) == cache.filled

\* if (_tickerSet && _tickerFilePath === allTickersFile)
CacheHit(cache, path) == cache.filled /\ cache.path = path

\* the operator writes or removes a reference file, or sets the environment
EditRefFile ==
  /\ refLog.edits < MaxEdits
  /\ \E p \in Paths, f \in {NoRefFile} \cup {RefFile(txt) : txt \in RefTexts} :
       /\ f # refFiles[p]
       /\ refFiles' = [refFiles EXCEPT ![p] = f]
  /\ refLog' = [refLog EXCEPT !.edits = @ + 1]
  /\ UNCHANGED <<ledgerVars, gainerVars, extractVars, queryVars, logVars, mirror, route,
                 tickerCache, blacklistEnv, blacklistCache, loads>>

SetEnv ==
  /\ refLog.edits < MaxEdits
  /\ \E v \in EnvValues : v # blacklistEnv /\ blacklistEnv' = v
  /\ refLog' = [refLog EXCEPT !.edits = @ + 1]
  /\ UNCHANGED <<ledgerVars, gainerVars, extractVars, queryVars, logVars, mirror, route,
                 refFiles, tickerCache, blacklistCache, loads>>

\* loadTickerSet(path) up to its await: the cached set, an error for a
\* missing file, or the read of the file
CallLoad(c, path) ==
  /\ loads[c].pc # "reading"
  /\ refLog.calls < MaxCalls
  /\ refLog' = [refLog EXCEPT !.calls = @ + 1, !.last = <<c, path>>]
  /\ loads' = [loads EXCEPT ![c] =
       IF CacheHit(tickerCache, path)
       THEN [pc |-> "returned", path |-> path, result |-> tickerCache.set, hit |-> TRUE]
       ELSE IF ~refFiles[path].exists
       THEN [pc |-> "threw", path |-> path, result |-> {}, hit |-> FALSE]
       ELSE [pc |-> "reading", path |-> path, result |-> {}, hit |-> FALSE]]
  /\ UNCHANGED <<ledgerVars, gainerVars, extractVars, queryVars, logVars, mirror, route,
                 refFiles, tickerCache, blacklistEnv, blacklistCache>>

\* fs.readFile settles: the set is built and cached with its path; a file
\* that has disappeared since makes the read fail
ReadDone(c) ==
  /\ loads[c].pc = "reading"
  /\ LET path == loads[c].path
         set == ParseTickers(refFiles[path].txt)
     IN IF refFiles[path].exists
        THEN /\ tickerCache' = [filled |-> TRUE, set |-> set, path |-> path]
             /\ loads' = [loads EXCEPT ![c].pc = "returned", ![c].result = set]
             /\ refLog' = [refLog EXCEPT !.reads = @ + 1]
        ELSE /\ loads' = [loads EXCEPT ![c].pc = "threw"]
             /\ UNCHANGED <<tickerCache, refLog>>
  /\ UNCHANGED <<ledgerVars, gainerVars, extractVars, queryVars, logVars, mirror, route,
                 refFiles, blacklistEnv, blacklistCache>>

\* getBlacklistSet()
GetBlacklist ==
  /\ refLog.calls < MaxCalls
  /\ LET built == BuildBlacklist(blacklistEnv)
     IN IF blacklistCache.filled
        THEN /\ refLog' = [refLog EXCEPT !.calls = @ + 1, !.last = <<0, "none">>, !.blacklist = "cached"]
             /\ UNCHANGED blacklistCache
        ELSE IF built.throws
        THEN /\ refLog' = [refLog EXCEPT !.calls = @ + 1, !.last = <<0, "none">>, !.blacklist = "threw"]
             /\ UNCHANGED blacklistCache
        ELSE /\ refLog' = [refLog EXCEPT !.calls = @ + 1, !.builds = @ + 1,
                                         !.last = <<0, "none">>, !.blacklist = "built"]
             /\ blacklistCache' = [filled |-> TRUE, set |-> built.set]
  /\ UNCHANGED <<ledgerVars, gainerVars, extractVars, queryVars, logVars, mirror, route,
                 refFiles, tickerCache, blacklistEnv, loads>>

NextCache ==
  \/ EditRefFile
  \/ SetEnv
  \/ \E c \in Callers, path \in Paths : CallLoad(c, path)
  \/ \E c \in Callers : ReadDone(c)
  \/ GetBlacklist

\* ---- deleteAndRepost ---------------------------------------------------------------
Mirrored == 1..MaxMirror

Permissions == {"ManageMessages", "SendMessages", "SendMessagesBot"}

\* what is there of message i: the original, its audit copy in the log
\* channel, its repost; what the call logged and raised
NoMirror == [pc |-> "idle", original |-> TRUE, audit |-> FALSE, repost |-> FALSE,
             logged |-> FALSE, reported |-> FALSE, raised |-> "nothing"]

InitMirror == mirror = [i \in Mirrored |-> NoMirror]

\* a repost whose forward is deleted whether it succeeded or not
AfterRepostAlways(ok) == "unforward"

\* the try of step 4: after the repost the forward is deleted; a failure goes
\* to the catch
AfterRepost(ok) == IF ok THEN "unforward" ELSE "logFailure"

\* deleteAndRepost(message, botLogChannel, userInitials) up to step 2: the
\* guards, the permissions, the download of the attachments (which catches
\* its own failures)
MirrorCall(i) ==
  /\ mirror[i].pc = "idle"
  /\ \E author \in {"user", "bot", "webhook", "none"}, channel \in BOOLEAN,
        perms \in SUBSET Permissions :
       mirror' = [mirror EXCEPT ![i] =
         IF author # "user" THEN [@ EXCEPT !.pc = "returned"]
         ELSE IF ~channel THEN [@ EXCEPT !.pc = "threw", !.raised = "botChannel is required"]
         ELSE IF perms # Permissions THEN [@ EXCEPT !.pc = "threw", !.raised = "Missing permission"]
         ELSE [@ EXCEPT !.pc = "forward"]]
  /\ UNCHANGED <<ledgerVars, gainerVars, extractVars, queryVars, logVars, cacheVars, route>>

\* 2) forwardMsg = await forwardMessage(message, botLogChannel, files)
MirrorForward(i) ==
  /\ mirror[i].pc = "forward"
  /\ \E ok \in BOOLEAN :
       mirror' = [mirror EXCEPT ![i] =
         IF ok THEN [@ EXCEPT !.pc = "delete", !.audit = TRUE]
         ELSE [@ EXCEPT !.pc = "threw", !.raised = "send failed"]]
  /\ UNCHANGED <<ledgerVars, gainerVars, extractVars, queryVars, logVars, cacheVars, route>>

\* 3) await message.delete().catch(err => { throw ... })
MirrorDelete(i) ==
  /\ mirror[i].pc = "delete"
  /\ \E ok \in BOOLEAN :
       mirror' = [mirror EXCEPT ![i] =
         IF ok THEN [@ EXCEPT !.pc = "repost", !.original = FALSE]
         ELSE [@ EXCEPT !.pc = "threw", !.raised = "Failed to delete original"]]
  /\ UNCHANGED <<ledgerVars, gainerVars, extractVars, queryVars, logVars, cacheVars, route>>

\* 4) await repostMessage(message, files, userInitials); the catch logs
\* the error on the console
MirrorRepost(i) ==
  /\ mirror[i].pc = "repost"
  /\ \E ok \in BOOLEAN :
       mirror' = [mirror EXCEPT ![i] =
         IF ok THEN [@ EXCEPT !.pc = AfterRepost(ok), !.repost = TRUE]
         ELSE [@ EXCEPT !.pc = AfterRepost(ok), !.logged = AfterRepost(ok) = "logFailure",
                        !.raised = "repost failed"]]
  /\ UNCHANGED <<ledgerVars, gainerVars, extractVars, queryVars, logVars, cacheVars, route>>

\* 5) await forwardMsg.delete().catch(() => {})
MirrorUnforward(i) ==
  /\ mirror[i].pc = "unforward"
  /\ \E ok \in BOOLEAN :
       mirror' = [mirror EXCEPT ![i] =
         [@ EXCEPT !.pc = IF mirror[i].raised = "nothing" THEN "returned" ELSE "threw",
                   !.audit = IF ok THEN FALSE ELSE mirror[i].audit]]
  /\ UNCHANGED <<ledgerVars, gainerVars, extractVars, queryVars, logVars, cacheVars, route>>

\* await logFailure(botLogChannel, message, err): the send to the log channel
\* can fail, which logFailure catches; then throw err
MirrorLogFailure(i) ==
  /\ mirror[i].pc = "logFailure"
  /\ \E ok \in BOOLEAN :
       mirror' = [mirror EXCEPT ![i] = [@ EXCEPT !.pc = "threw", !.reported = ok]]
  /\ UNCHANGED <<ledgerVars, gainerVars, extractVars, queryVars, logVars, cacheVars, route>>

NextMirror ==
  \E i \in Mirrored :
    \/ MirrorCall(i)
    \/ MirrorForward(i)
    \/ MirrorDelete(i)
    \/ MirrorRepost(i)
    \/ MirrorUnforward(i)
    \/ MirrorLogFailure(i)

\* ---- the message router: client.on("messageCreate") ------------------------------
BOT == "botroom"         \* BOT_CHANNEL_ID
LOGROOM == "logroom"     \* LOG_CHANNEL_ID
CHAT == "chat"           \* a chat room of CHATROOM_IDS

\* the text of a message without its mentions: empty, the shutdown phrase with
\* the secret, a mention and nothing else, the command phrases, anything else
RouterTexts == {"", "shutdown secret", "mention only", "mine", "all", "tickers",
                "earnings 500", "image", "earnings", "question"}

RouterMessages ==
  [webhook : BOOLEAN, bot : BOOLEAN, channel : {GRAPHS, BOT, LOGROOM, CHAT},
   text : RouterTexts, mentionsBot : BOOLEAN, others : BOOLEAN]

\* CHATROOM_IDS and LIVE_LISTENING_ENABLED
RouterConfigs == [chatRooms : {{}, {CHAT}, {CHAT, GRAPHS, BOT}}, live : BOOLEAN]

\* content.replace(/<@!?[0-9]+>/g, "").trim().toLowerCase() without @superpony
CleanContent(content) == IF content = "mention only" THEN "" ELSE content

\* a router that lets the automated accounts through
IgnoresNobody(msg) == FALSE

\* if (message.author.bot) return
IgnoresAuthor(msg) == msg.bot

\* chatRooms.length > 0 && chatRooms.includes(message.channel.id)
ShouldLog(msg, cfg) == cfg.chatRooms # {} /\ msg.channel \in cfg.chatRooms

\* the chain of ifs of the bot room
Command(msg) ==
  LET clean == CleanContent(msg.text)
  IN IF ~msg.others /\ clean = "mine" THEN "listMyTickers"
     ELSE IF ~msg.others /\ clean = "all" THEN "listAllTickers"
     ELSE IF ~msg.others /\ clean = "tickers" THEN "showTickersDashboard"
     ELSE IF msg.others /\ clean = "tickers" THEN "listFirstByUser"
     ELSE IF clean = "earnings 500" THEN "handleTodaysEarnings"
     ELSE IF clean = "image" THEN "handleAnticipatedImage"
     ELSE IF clean = "earnings" THEN "handleTodaysEarnings"
     ELSE IF clean # "" THEN "askGemini"
     ELSE "sendHelp"

\* from the graphs room on: where the router goes after the context log
AfterLog(msg) ==
  IF msg.channel = GRAPHS THEN (IF msg.text # "" THEN "ingest" ELSE "done")
  ELSE IF msg.channel # BOT THEN "done"
  ELSE IF msg.text = "" THEN "done"
  ELSE IF ~msg.mentionsBot THEN "done"
  ELSE "command"

\* the head of the router: webhooks, bots, the context log
FirstStop(msg, cfg) ==
  IF msg.webhook
  THEN (IF msg.channel = LOGROOM /\ msg.text = "shutdown secret" THEN "shutdown" ELSE "done")
  ELSE IF IgnoresAuthor(msg) THEN "done"
  ELSE IF ShouldLog(msg, cfg) THEN "log"
  ELSE AfterLog(msg)

NoMessage == [webhook |-> FALSE, bot |-> FALSE, channel |-> CHAT, text |-> "",
              mentionsBot |-> FALSE, others |-> FALSE]

NoRoute == [pc |-> "idle", msg |-> NoMessage, cfg |-> [chatRooms |-> {}, live |-> FALSE],
            reached |-> {}, ingested |-> 0, reply |-> "nothing"]

InitRoute == route = NoRoute

\* a messageCreate event
RouteReceive ==
  /\ route.pc = "idle"
  /\ \E msg \in RouterMessages, cfg \in RouterConfigs :
       route' = [NoRoute EXCEPT !.pc = FirstStop(msg, cfg), !.msg = msg, !.cfg = cfg]
  /\ UNCHANGED <<ledgerVars, gainerVars, extractVars, queryVars, logVars, cacheVars, mirror>>

\* botChannel.send(...); return shutdown()
RouteShutdown ==
  /\ route.pc = "shutdown"
  /\ route' = [route EXCEPT !.pc = "done", !.reached = @ \cup {"shutdown"}]
  /\ UNCHANGED <<ledgerVars, gainerVars, extractVars, queryVars, logVars, cacheVars, mirror>>

\* try { await appendToLog(message) } catch { console.error }
RouteLog ==
  /\ route.pc = "log"
  /\ route' = [route EXCEPT !.pc = AfterLog(route.msg), !.reached = @ \cup {"appendToLog"}]
  /\ UNCHANGED <<ledgerVars, gainerVars, extractVars, queryVars, logVars, cacheVars, mirror>>

\* await handleGraphChannelMessage(...); if (!LIVE_LISTENING_ENABLED) return
RouteIngest ==
  /\ route.pc = "ingest"
  /\ \E ok \in BOOLEAN :
       route' = [route EXCEPT !.pc = IF ~ok THEN "error" ELSE IF route.cfg.live THEN "repost"
                                     ELSE "done",
                              !.reached = @ \cup {"handleGraphChannelMessage"},
                              !.ingested = @ + 1]
  /\ UNCHANGED <<ledgerVars, gainerVars, extractVars, queryVars, logVars, cacheVars, mirror>>

\* try { await deleteAndRepost(...) } catch { ...; await message.channel.send }
RouteRepost ==
  /\ route.pc = "repost"
  /\ \E ok \in BOOLEAN :
       route' = [route EXCEPT !.pc = "done", !.reached = @ \cup {"deleteAndRepost"},
                              !.reply = IF ok THEN route.reply ELSE "could not repost"]
  /\ UNCHANGED <<ledgerVars, gainerVars, extractVars, queryVars, logVars, cacheVars, mirror>>

\* the command of the bot room, the question, or the help; askGemini has a
\* try/catch of its own
RouteCommand ==
  /\ route.pc = "command"
  /\ \E ok \in BOOLEAN :
       route' = [route EXCEPT !.pc = IF ok \/ Command(route.msg) = "askGemini" THEN "done"
                                     ELSE "error",
                              !.reached = @ \cup {Command(route.msg)},
                              !.reply = IF ok THEN "answer"
                                        ELSE IF Command(route.msg) = "askGemini"
                                        THEN "could not answer" ELSE route.reply]
  /\ UNCHANGED <<ledgerVars, gainerVars, extractVars, queryVars, logVars, cacheVars, mirror>>

\* the catch of the whole handler
RouteError ==
  /\ route.pc = "error"
  /\ route' = [route EXCEPT !.pc = "done", !.reply = "error"]
  /\ UNCHANGED <<ledgerVars, gainerVars, extractVars, queryVars, logVars, cacheVars, mirror>>

\* the handler has returned; the next event can come
RouteReturn ==
  /\ route.pc = "done"
  /\ route' = NoRoute
  /\ UNCHANGED <<ledgerVars, gainerVars, extractVars, queryVars, logVars, cacheVars, mirror>>

NextRouter ==
  \/ RouteReceive
  \/ RouteReturn
  \/ RouteShutdown
  \/ RouteLog
  \/ RouteIngest
  \/ RouteRepost
  \/ RouteCommand
  \/ RouteError

InitAux == InitCache /\ InitMirror /\ InitRoute

BfIdle == [pc |-> "idle", afterId |-> NoId, page |-> <<>>, scanned |-> 0,
           wait |-> 0, startCp |-> NoId, commits |-> 0]

NoLive == [m \in AllMsgs |-> "none"]

Init ==
  /\ posted = 0
  /\ up = FALSE
  /\ runs = 0
  /\ file = NoFile
  /\ gitHead = NoFile
  /\ writeQueue = <<>>
  /\ rejected = FALSE
  /\ live = NoLive
  /\ bf = BfIdle
  /\ readFails = 0
  /\ writeFails = 0
  /\ firstStart = NoId
  /\ advDone = {}
  /\ appDone = {}
  /\ completed = 0
  /\ idle = 0
  /\ tickersFile = TRUE
  /\ _tickerSet = FALSE
  /\ commitFails = 0
  /\ items = <<>>
  /\ pool = PoolIdle
  /\ text = <<>>
  /\ found = NotRun
  /\ dbRaw = NoRaw
  /\ reply = NoReply
  /\ InitLog
  /\ InitAux

\* ---- the environment: users and the operator ---------------------------------
\* A user posts the next message. While the process is up the message router
\* hands a non-bot message with text in the ticker channel to a live handler.
PostUpTo(n) ==
  /\ posted < n
  /\ posted < Len(Messages)
  /\ posted' = posted + 1
  /\ live' = IF up /\ ~Messages[posted + 1].bot /\ Messages[posted + 1].content # <<>>
             THEN [live EXCEPT ![posted + 1] = "start"]
             ELSE live
  /\ UNCHANGED <<otherVars, _tickerSet, completed, up, runs, file, gitHead, writeQueue, rejected, bf, readFails,
                 writeFails, firstStart, advDone, appDone>>

Post == PostUpTo(NMsgs)

\* The process starts: the module state is fresh and "ready" runs the backfill.
Start ==
  /\ ~up
  /\ runs < MaxRuns
  /\ up' = TRUE
  /\ runs' = runs + 1
  /\ writeQueue' = <<>>
  /\ rejected' = FALSE
  /\ live' = NoLive
  /\ bf' = [BfIdle EXCEPT !.pc = "resolve"]
  /\ _tickerSet' = FALSE
  /\ UNCHANGED <<otherVars, completed, posted, file, gitHead, readFails, writeFails, firstStart, advDone, appDone>>

\* The process stops (shutdown, process.exit): everything in memory is lost.
Stop ==
  /\ up
  /\ up' = FALSE
  /\ writeQueue' = <<>>
  /\ rejected' = FALSE
  /\ live' = NoLive
  /\ bf' = BfIdle
  /\ _tickerSet' = FALSE
  /\ UNCHANGED <<otherVars, completed, posted, runs, file, gitHead, readFails, writeFails, firstStart,
                 advDone, appDone>>

\* ---- commitDbIfChanged ---------------------------------------------------------
\* git add / commit / push of the ledger file
commitDbIfChanged(f, head) == f

\* a helper that lets the failure of git through to its caller
CommitRaisesOnFailure(gitFailed) == gitFailed

\* the outer try/catch of commitDbIfChanged: the failure is logged and false
\* is returned
CommitRaises(gitFailed) == FALSE

\* a handler that commits after the append of every message it handles
CommitAlways(owner) == TRUE

\* commitAfterWrite of handleGraphChannelMessage: live messages: true;
\* backfill: false (owner 0 is the backfill run)
CommitAfterWrite(owner) == owner # 0

\* ---- loadTickerSet ----------------------------------------------------------------
\* a load that yields the empty set when the file is missing
loadTickerSetOrEmpty(cached, exists) ==
  [throws |-> FALSE, cached |-> cached \/ exists, usable |-> cached \/ exists]

\* the cached set when there is one; otherwise the file is read into the cache,
\* and a missing file is an error
loadTickerSet(cached, exists) ==
  [throws |-> ~cached /\ ~exists, cached |-> cached \/ exists, usable |-> cached \/ exists]

\* extractTickers(content, tickerSet) of message m
TickersOfMsg(m, set) == IF set.usable THEN MsgTickers[m] ELSE <<>>

\* ---- live ingestion: handleGraphChannelMessage from messageCreate --------------
LiveStart(m) ==
  /\ up
  /\ live[m] = "start"
  /\ LET set == loadTickerSet(_tickerSet, tickersFile)
     IN /\ _tickerSet' = set.cached
        /\ IF set.throws
           THEN /\ live' = [live EXCEPT ![m] = "failed"]
                /\ UNCHANGED writeQueue
           ELSE IF TickersOfMsg(m, set) # <<>>
           THEN /\ writeQueue' = Append(writeQueue, AppendOp(m, m))
                /\ live' = [live EXCEPT ![m] = "append"]
           ELSE /\ writeQueue' = Append(writeQueue, CheckpointOp(m, m))
                /\ live' = [live EXCEPT ![m] = "cp"]
  /\ UNCHANGED <<otherVars, completed, posted, up, runs, file, gitHead, rejected, bf, readFails, writeFails,
                 firstStart, advDone, appDone>>

\* after the append: commit (commitAfterWrite), then advance the checkpoint
LiveCommit(m) ==
  /\ up
  /\ live[m] = "commit"
  /\ gitHead' = commitDbIfChanged(file, gitHead)
  /\ writeQueue' = Append(writeQueue, CheckpointOp(m, m))
  /\ live' = [live EXCEPT ![m] = "cp"]
  /\ UNCHANGED <<otherVars, _tickerSet, completed, posted, up, runs, file, rejected, bf, readFails, writeFails,
                 firstStart, advDone, appDone>>

\* ---- runBackfillOnce -------------------------------------------------------------
\* await writeQueue: wait for the n operations chained so far
AwaitQueue(b, n, rej) ==
  IF n > 0 THEN [b EXCEPT !.pc = "flush", !.wait = n]
  ELSE [b EXCEPT !.pc = IF rej THEN "failed" ELSE "commit", !.wait = 0]

\* afterId = message.id; scanned++
NextMessage(b) ==
  LET rest == Tail(b.page)
  IN [b EXCEPT !.afterId = MsgIds[Head(b.page)], !.scanned = @ + 1, !.page = rest,
               !.pc = IF rest = <<>> THEN "fetch" ELSE "msg"]

BfResolveWith(failed) ==
  /\ up
  /\ bf.pc = "resolve"
  /\ LET db == loadDb(file, failed)
         cp == db.checkpoints[GRAPHS]
         start == ResolveStart(cp, Now)
     IN /\ bf' = [bf EXCEPT !.pc = "fetch", !.afterId = start, !.startCp = cp.lastProcessedId]
        /\ firstStart' = IF firstStart = NoId THEN start ELSE firstStart
  /\ UNCHANGED <<otherVars, _tickerSet, completed, posted, up, runs, file, gitHead, writeQueue, rejected, live,
                 writeFails, advDone, appDone>>

BfResolve == BfResolveWith(FALSE) /\ UNCHANGED readFails

BfFetchWith(limit) ==
  /\ up
  /\ bf.pc = "fetch"
  /\ LET batch == FetchAfter(bf.afterId, limit)
     IN bf' = IF batch = <<>> THEN AwaitQueue(bf, Len(writeQueue), rejected)
              ELSE [bf EXCEPT !.pc = "msg", !.page = SortByTs(batch)]
  /\ UNCHANGED <<otherVars, _tickerSet, completed, posted, up, runs, file, gitHead, writeQueue, rejected, live, readFails,
                 writeFails, firstStart, advDone, appDone>>

BfFetch == BfFetchWith(PageLimit)

\* a loop that passes over the automated accounts only
SkipsBots(m) == Messages[m].bot

\* the two ifs of the loop: the author is a bot, or the message mentions the
\* assistant
Skips(m) == Messages[m].bot \/ Messages[m].mentionsBot

BfMessage ==
  /\ up
  /\ bf.pc = "msg"
  /\ LET m == Head(bf.page)
         hasContent == Messages[m].content # <<>>
         set == IF hasContent THEN loadTickerSet(_tickerSet, tickersFile)
                ELSE [throws |-> FALSE, cached |-> _tickerSet, usable |-> FALSE]
     IN IF Skips(m)
        THEN bf' = NextMessage(bf) /\ UNCHANGED <<writeQueue, _tickerSet>>
        ELSE /\ _tickerSet' = set.cached
             /\ IF set.throws
                THEN bf' = [bf EXCEPT !.pc = "failed"] /\ UNCHANGED writeQueue
                ELSE IF hasContent /\ TickersOfMsg(m, set) # <<>>
                THEN /\ writeQueue' = Append(writeQueue, AppendOp(0, m))
                     /\ bf' = [bf EXCEPT !.pc = "append"]
                ELSE /\ writeQueue' = Append(writeQueue, CheckpointOp(0, m))
                     /\ bf' = [bf EXCEPT !.pc = "cp"]
  /\ UNCHANGED <<otherVars, completed, posted, up, runs, file, gitHead, rejected, live, readFails, writeFails,
                 firstStart, advDone, appDone>>

BfCommit ==
  /\ up
  /\ bf.pc = "commit"
  /\ gitHead' = commitDbIfChanged(file, gitHead)
  /\ bf' = [bf EXCEPT !.pc = "done", !.commits = @ + 1]
  /\ completed' = completed + 1
  /\ UNCHANGED <<otherVars, _tickerSet, posted, up, runs, file, writeQueue, rejected, live, readFails,
                 writeFails, firstStart, advDone, appDone>>

\* ---- the write queue ---------------------------------------------------------------
\* Operation i settles (ok: resolved, ~ok: rejected): it leaves the chain and the
\* caller awaiting it goes on.
Continue(i, ok) ==
  LET op == writeQueue[i]
      rest == RemoveAt(writeQueue, i)
      bw == IF bf.pc = "flush"
            THEN AwaitQueue(bf, bf.wait - 1, ~ok)
            ELSE bf
  IN IF op.owner = 0
     THEN /\ live' = live
          /\ IF ~ok
             THEN bf' = [bf EXCEPT !.pc = "failed"] /\ writeQueue' = rest
             ELSE IF op.kind = "append"
             THEN /\ bf' = [bf EXCEPT !.pc = "cp",
                                      !.commits = IF CommitAfterWrite(0) THEN @ + 1 ELSE @]
                  /\ writeQueue' = Append(rest, CheckpointOp(0, op.msg))
             ELSE bf' = NextMessage(bf) /\ writeQueue' = rest
     ELSE /\ bf' = bw
          /\ writeQueue' = rest
          /\ live' = [live EXCEPT ![op.owner] =
                        IF ~ok THEN "failed"
                        ELSE IF op.kind = "append" THEN "commit" ELSE "done"]

\* const db = await loadDb(dbPath)
LoadStep(i, failed) ==
  /\ up
  /\ CanStart(i)
  /\ ~rejected
  /\ ~writeQueue[i].loaded
  /\ writeQueue' = [writeQueue EXCEPT ![i].loaded = TRUE, ![i].db = loadDb(file, failed)]
  /\ UNCHANGED <<otherVars, _tickerSet, completed, posted, up, runs, file, gitHead, rejected, live, bf, writeFails,
                 firstStart, advDone, appDone>>

Load == \E i \in DOMAIN writeQueue : LoadStep(i, FALSE) /\ UNCHANGED readFails

\* db.updated = new Date().toISOString(): later than the stamp of the last write
NextStamp == file.doc.updated + 1

\* the body of appendEntries after the load
AppendMutate(op) ==
  LET merged == PushNew(op.db.entries, op.entries)
  IN [save |-> ShouldSave(Len(merged) - Len(op.db.entries)),
      db |-> [op.db EXCEPT !.entries = merged, !.updated = NextStamp]]

\* an update that builds the checkpoints anew around the one it sets
CheckpointMutateFresh(op) ==
  LET cp == op.db.checkpoints[op.channelId]
  IN [save |-> ShouldAdvance(op.msgId, cp),
      db |-> [op.db EXCEPT !.checkpoints =
                             [c \in Channels |->
                                IF c = op.channelId
                                THEN [lastProcessedId |-> op.msgId, lastProcessedAt |-> op.tsIso]
                                ELSE NoCp],
                           !.updated = NextStamp]]

\* the body of updateCheckpoint after the load
CheckpointMutate(op) ==
  LET cp == op.db.checkpoints[op.channelId]
  IN [save |-> ShouldAdvance(op.msgId, cp),
      db |-> [op.db EXCEPT !.checkpoints[op.channelId] =
                             [lastProcessedId |-> op.msgId, lastProcessedAt |-> op.tsIso],
                           !.updated = NextStamp]]

Mutate(op) == IF op.kind = "append" THEN AppendMutate(op) ELSE CheckpointMutate(op)

AppendCycle ==
  \E i \in DOMAIN writeQueue :
    /\ up
    /\ writeQueue[i].loaded
    /\ writeQueue[i].kind = "append"
    /\ LET r == AppendMutate(writeQueue[i])
       IN file' = IF r.save THEN saveDb(r.db) ELSE file
    /\ gitHead' = IF writeQueue[i].owner = 0 /\ CommitAfterWrite(0)
                  THEN commitDbIfChanged(file', gitHead) ELSE gitHead
    /\ appDone' = appDone \cup Range(writeQueue[i].entries)
    /\ Continue(i, TRUE)
    /\ UNCHANGED <<otherVars, _tickerSet, completed, posted, up, runs, rejected, readFails, writeFails,
                   firstStart, advDone>>

CheckpointCycle ==
  \E i \in DOMAIN writeQueue :
    /\ up
    /\ writeQueue[i].loaded
    /\ writeQueue[i].kind = "checkpoint"
    /\ LET r == CheckpointMutate(writeQueue[i])
       IN file' = IF r.save THEN saveDb(r.db) ELSE file
    /\ advDone' = advDone \cup {writeQueue[i].msgId}
    /\ Continue(i, TRUE)
    /\ UNCHANGED <<otherVars, _tickerSet, completed, posted, up, runs, gitHead, rejected, readFails, writeFails,
                   firstStart, appDone>>

\* ---- faults of the file system -----------------------------------------------------
\* fs.readFile or JSON.parse throws inside loadDb
LoadFail ==
  /\ readFails + writeFails < MaxFaults
  /\ readFails' = readFails + 1
  /\ \E i \in DOMAIN writeQueue : LoadStep(i, TRUE)

BfResolveFail ==
  /\ readFails + writeFails < MaxFaults
  /\ readFails' = readFails + 1
  /\ BfResolveWith(TRUE)

\* saveDb throws: the async callback rejects, and with it the promise chain
PersistFail ==
  \E i \in DOMAIN writeQueue :
    /\ up
    /\ readFails + writeFails < MaxFaults
    /\ writeQueue[i].loaded
    /\ Mutate(writeQueue[i]).save
    /\ writeFails' = writeFails + 1
    /\ rejected' = TRUE
    /\ Continue(i, FALSE)
    /\ UNCHANGED <<otherVars, _tickerSet, completed, posted, up, runs, file, gitHead, readFails, firstStart, advDone, appDone>>

\* .then(callback) on a rejected promise: the callback is not called and the
\* promise returned is rejected too
SkipRejected ==
  \E i \in DOMAIN writeQueue :
    /\ up
    /\ CanStart(i)
    /\ rejected
    /\ ~writeQueue[i].loaded
    /\ Continue(i, FALSE)
    /\ UNCHANGED <<otherVars, _tickerSet, completed, posted, up, runs, file, gitHead, rejected, readFails, writeFails,
                   firstStart, advDone, appDone>>

\* ---- the ranking of the dashboard: tickersDashboard.mjs ------------------------------
\* A price is a number or is missing (null, undefined): <<n>> or <<>>.
Missing == <<>>
IsMissing(v) == v = Missing                       \* v == null || !isFinite(v)
Positive(v) == v # Missing /\ v[1] > 0            \* v > 0
Coalesce(v, w) == IF v # Missing THEN v ELSE w    \* v ?? w

\* What the market-data service answers for the symbols of the model: the
\* request fails, or it gives the opens and closes of the days from the start
\* day on (idx is the day pickStartIndex chooses), the last close and the price.
Charts == <<
  [fail |-> TRUE, idx |-> 1, opens |-> <<>>, closes |-> <<>>,
   lastClose |-> Missing, lastPrice |-> Missing],
  [fail |-> FALSE, idx |-> 1, opens |-> << <<1>> >>, closes |-> << <<2>> >>,
   lastClose |-> <<2>>, lastPrice |-> <<3>>],
  [fail |-> FALSE, idx |-> 1, opens |-> << Missing, <<2>> >>, closes |-> << <<1>>, <<2>> >>,
   lastClose |-> <<2>>, lastPrice |-> <<3>>],
  [fail |-> FALSE, idx |-> 1, opens |-> << Missing >>, closes |-> << Missing >>,
   lastClose |-> <<2>>, lastPrice |-> <<2>>],
  [fail |-> FALSE, idx |-> 1, opens |-> << <<0>> >>, closes |-> << <<1>> >>,
   lastClose |-> <<2>>, lastPrice |-> <<2>>],
  [fail |-> FALSE, idx |-> 1, opens |-> << <<0>> >>, closes |-> << <<2>> >>,
   lastClose |-> <<2>>, lastPrice |-> <<0>>] >>

Symbols == 1..Len(Charts)

\* the first price of the series from day idx on that is not missing
\* (the loops of fetchBasisAndLatest)
FirstFrom(series, idx) ==
  LET js == {j \in idx..Len(series) : ~IsMissing(series[j])}
  IN IF js = {} THEN Missing ELSE series[CHOOSE j \in js : \A k \in js : j <= k]

\* fetchBasisAndLatest: [threw, basis, latest]
fetchBasisAndLatest(symbol, mode) ==
  LET ch == Charts[symbol]
      startOpen == FirstFrom(ch.opens, ch.idx)
      startClose == FirstFrom(ch.closes, ch.idx)
      threw == \/ ch.fail
               \/ ~Positive(startOpen) /\ ~Positive(startClose)
               \/ ~Positive(ch.lastPrice) /\ ~Positive(ch.lastClose)
      basis == IF mode = "cc" THEN Coalesce(startClose, startOpen)
               ELSE Coalesce(startOpen, startClose)
      latest == IF mode = "cc" THEN Coalesce(ch.lastClose, ch.lastPrice)
                ELSE Coalesce(ch.lastPrice, ch.lastClose)
  IN [threw |-> threw, basis |-> basis, latest |-> latest]

\* ((latest - basis) / basis) * 100 in floating point: a number (the prices of
\* the model divide exactly), an infinity, or NaN
Pct(basis, latest) ==
  IF basis # 0 THEN [kind |-> "num", v |-> ((latest - basis) * 100) \div basis]
  ELSE [kind |-> IF latest > 0 THEN "inf" ELSE IF latest < 0 THEN "-inf" ELSE "nan",
        v |-> 0]

NullResult == [kind |-> "null", symbol |-> 0, basis |-> 0, latest |-> 0,
               pct |-> [kind |-> "nan", v |-> 0]]
Unset == [NullResult EXCEPT !.kind = "unset"]

\* the worker of computeGainers: the entry of the symbol, null when the
\* lookup throws
Worker(symbol, mode) ==
  LET r == fetchBasisAndLatest(symbol, mode)
  IN IF r.threw THEN NullResult
     ELSE [kind |-> "entry", symbol |-> symbol, basis |-> r.basis[1],
           latest |-> r.latest[1], pct |-> Pct(r.basis[1], r.latest[1])]

\* the sign of the comparator (a, b) => b.pct - a.pct, NaN counting as 0
\* (Array.prototype.sort)
Compare(a, b) ==
  LET x == b.pct
      y == a.pct
  IN IF x.kind = "nan" \/ y.kind = "nan" THEN 0
     ELSE IF x.kind = y.kind /\ x.kind # "num" THEN 0
     ELSE IF x.kind = "inf" \/ y.kind = "-inf" THEN 1
     ELSE IF x.kind = "-inf" \/ y.kind = "inf" THEN -1
     ELSE IF x.v > y.v THEN 1 ELSE IF x.v < y.v THEN -1 ELSE 0

\* the comparator is a consistent comparator for the elements of the list
Consistent(list) ==
  \A a, b, c \in Range(list) :
    /\ (Compare(a, b) = 0 /\ Compare(b, c) = 0) => Compare(a, c) = 0
    /\ (Compare(a, b) < 0 /\ Compare(b, c) < 0) => Compare(a, c) < 0
    /\ (Compare(a, b) > 0 /\ Compare(b, c) > 0) => Compare(a, c) > 0
    /\ (Compare(a, b) = 0) => (Compare(b, a) = 0)
    /\ (Compare(a, b) < 0) => (Compare(b, a) > 0)

\* a stable sort with a consistent comparator
RECURSIVE InsertSorted(_, _)
InsertSorted(sorted, x) ==
  IF sorted = <<>> THEN <<x>>
  ELSE IF Compare(Head(sorted), x) > 0 THEN <<x>> \o sorted
  ELSE <<Head(sorted)>> \o InsertSorted(Tail(sorted), x)

RECURSIVE StableSort(_)
StableSort(list) ==
  IF list = <<>> THEN <<>>
  ELSE InsertSorted(StableSort(SubSeq(list, 1, Len(list) - 1)), list[Len(list)])

\* the orders of the elements of a list
Orders(list) ==
  {[k \in DOMAIN list |-> list[f[k]]] :
     f \in {g \in [DOMAIN list -> DOMAIN list] : \A i, j \in DOMAIN list : i # j => g[i] # g[j]}}

\* Array.prototype.sort: the sorted list; the order is implementation-defined
\* when the comparator is not consistent
SortOutcomes(list) == IF Consistent(list) THEN {StableSort(list)} ELSE Orders(list)

\* out.filter(Boolean)
RECURSIVE FilterBoolean(_)
FilterBoolean(list) ==
  IF list = <<>> THEN <<>>
  ELSE IF Head(list).kind = "entry" THEN <<Head(list)>> \o FilterBoolean(Tail(list))
  ELSE FilterBoolean(Tail(list))

\* a pool that starts a worker while `limit` workers are active
CanStartOneMore(active) == active <= Concurrency

\* while (active < limit ...)
CanStartWorker(active) == active < Concurrency

\* next() of mapLimit: start workers while a slot is free and an item is left
RECURSIVE StartWorkers(_)
StartWorkers(p) ==
  IF CanStartWorker(p.active) /\ p.i < Len(p.subset)
  THEN StartWorkers([p EXCEPT !.i = @ + 1, !.active = @ + 1, !.running = @ \cup {p.i + 1}])
  ELSE p

\* the sequences of distinct symbols of at most n elements
Candidates(n) ==
  UNION {{q \in [1..k -> Symbols] : \A i, j \in 1..k : i # j => q[i] # q[j]} : k \in 0..n}

\* computeGainers has been called with some candidates and a mode
InitGainers ==
  /\ posted = 0
  /\ up = FALSE
  /\ runs = 0
  /\ file = NoFile
  /\ gitHead = NoFile
  /\ writeQueue = <<>>
  /\ rejected = FALSE
  /\ live = NoLive
  /\ bf = BfIdle
  /\ readFails = 0
  /\ writeFails = 0
  /\ firstStart = NoId
  /\ advDone = {}
  /\ appDone = {}
  /\ completed = 0
  /\ idle = 0
  /\ tickersFile = TRUE
  /\ _tickerSet = FALSE
  /\ commitFails = 0
  /\ text = <<>>
  /\ found = NotRun
  /\ dbRaw = NoRaw
  /\ reply = NoReply
  /\ InitLog
  /\ InitAux
  /\ items \in Candidates(MaxItems)
  /\ \E mode \in {"oc", "cc"} : pool = [PoolIdle EXCEPT !.pc = "called", !.mode = mode]

\* computeGainers up to its await: the slice, and mapLimit up to the end of
\* its first next()
CallMapLimit ==
  /\ pool.pc = "called"
  /\ LET subset == SubSeq(items, 1, IF Len(items) < LimitTickers THEN Len(items)
                                    ELSE LimitTickers)
     IN pool' = StartWorkers([pool EXCEPT !.pc = "running", !.subset = subset,
                                          !.results = [k \in DOMAIN subset |-> Unset]])
  /\ UNCHANGED <<ledgerVars, extractVars, queryVars, logVars, auxVars, items>>

\* the worker of item idx settles: then / catch store its result, finally
\* frees the slot and resolves the promise of mapLimit or calls next()
Settle(idx) ==
  /\ pool.pc = "running"
  /\ idx \in pool.running
  /\ LET p == [pool EXCEPT !.results[idx] = Worker(pool.subset[idx], pool.mode),
                           !.active = @ - 1,
                           !.running = @ \ {idx}]
     IN pool' = IF p.i >= Len(p.subset) /\ p.active = 0
                THEN [p EXCEPT !.pc = "resolved"]
                ELSE StartWorkers(p)
  /\ UNCHANGED <<ledgerVars, extractVars, queryVars, logVars, auxVars, items>>

\* computeGainers after its await: filter, sort, return
Return ==
  /\ pool.pc = "resolved"
  /\ \E out \in SortOutcomes(FilterBoolean(pool.results)) :
       pool' = [pool EXCEPT !.pc = "returned", !.out = out]
  /\ UNCHANGED <<ledgerVars, extractVars, queryVars, logVars, auxVars, items>>

NextGainers ==
  \/ CallMapLimit
  \/ \E idx \in 1..LimitTickers : Settle(idx)
  \/ Return

SpecGainers == InitGainers /\ [][NextGainers]_vars

\* every continuation that is ready runs, every price lookup settles
SpecGainersFair == SpecGainers /\ WF_vars(NextGainers)

\* ---- the extractor on its own: extractTickers(text, tickerSet) -------------------
\* the characters of the texts: letters in both cases, a digit, white space,
\* a slash, punctuation, the joins, the dollar sign, a non-ASCII character
Alphabet == {"A", "a", "b", "7", " ", "/", ".", ",", "-", "$", "alef"}

\* the texts of at most n characters
Texts(n) == UNION {[1..k -> Alphabet] : k \in 0..n}

\* the spellings of the symbols A and A.B: letter case, dollar sign, hyphen
Words == {<<"A">>, <<"a">>, <<"$", "A">>, <<"A", "-", "b">>, <<"A", ".", "b">>,
          <<"$", "a", "-", "b">>}

\* the phrases of at most n words, a space between two words
RECURSIVE Phrases(_)
Phrases(n) ==
  IF n = 0 THEN {<<>>}
  ELSE Phrases(n - 1) \cup Words
       \cup {p \o SPACE \o w : p \in Phrases(n - 1) \ {<<>>}, w \in Words}

\* extractTickers is about to be called with some text
InitExtract ==
  /\ posted = 0
  /\ up = FALSE
  /\ runs = 0
  /\ file = NoFile
  /\ gitHead = NoFile
  /\ writeQueue = <<>>
  /\ rejected = FALSE
  /\ live = NoLive
  /\ bf = BfIdle
  /\ readFails = 0
  /\ writeFails = 0
  /\ firstStart = NoId
  /\ advDone = {}
  /\ appDone = {}
  /\ completed = 0
  /\ idle = 0
  /\ tickersFile = TRUE
  /\ _tickerSet = FALSE
  /\ commitFails = 0
  /\ items = <<>>
  /\ pool = PoolIdle
  /\ text \in Texts(MaxText) \cup Phrases(MaxWords)
  /\ found = NotRun
  /\ dbRaw = NoRaw
  /\ reply = NoReply
  /\ InitLog
  /\ InitAux

\* the call of extractTickers
Extract ==
  /\ found = NotRun
  /\ found' = extractTickers(text, TickerSet)
  /\ UNCHANGED <<ledgerVars, gainerVars, queryVars, logVars, auxVars, text>>

NextExtract == Extract

SpecExtract == InitExtract /\ [][NextExtract]_vars

\* ---- the queries: listAllTickers, listMyTickers, listFirstByUser, the dashboard ---
\* The messages that the records of a ledger come from: creation time, author
\* (no id: a record without a user), and the link, which names the message.
\* The month of the dashboard starts at MonthStart.
AggMsgs == <<
  [ts |-> 1, user |-> [id |-> "u2", name |-> "n2"]],
  [ts |-> 2, user |-> [id |-> "u1", name |-> "n1"]],
  [ts |-> 3, user |-> [id |-> "u2", name |-> "n2"]],
  [ts |-> 3, user |-> [id |-> "u1", name |-> "n1"]],
  [ts |-> 4, user |-> [id |-> "u1", name |-> "n1"]],
  [ts |-> 4, user |-> [id |-> "", name |-> ""]] >>

UserIds == {"u1", "u2"}

\* the record of ticker t that message m gave
Entry(m, t) == [ticker |-> t, ts |-> AggMsgs[m].ts, link |-> m, user |-> AggMsgs[m].user]

AggRecords == {Entry(m, t) : m \in 1..Len(AggMsgs), t \in {AAPL, TSLA}}

\* the lists of at most n records, no record twice
EntryLists(n) ==
  UNION {{q \in [1..k -> AggRecords] : \A i, j \in 1..k : i # j => q[i] # q[j]} : k \in 0..n}

\* isInMonth(Date.parse(e.timestamp), monthStart): no record is of a later month
isInMonth(ts) == ts >= MonthStart

\* a Map in insertion order: a sequence of [key, value]
MapHas(map, key) == \E k \in DOMAIN map : map[k].key = key
MapGet(map, key) == map[CHOOSE k \in DOMAIN map : map[k].key = key].value
MapSet(map, key, value) ==
  IF MapHas(map, key)
  THEN [k \in DOMAIN map |-> IF map[k].key = key THEN [key |-> key, value |-> value] ELSE map[k]]
  ELSE Append(map, [key |-> key, value |-> value])

\* s.toUpperCase()
UpperCase(str) == [k \in DOMAIN str |-> toUpperCase(str[k])]

\* the aggregate of a ticker that has no record yet
NewCur == [count |-> 0, firstTs |-> Infinity, firstLink |-> 0, firstUserId |-> "",
           firstUserName |-> "", lastTs |-> -1, lastLink |-> 0]

\* a comparison that lets a later record of the same time take the place
TsLessOrEqual(ts, firstTs) == ts <= firstTs

\* ts < cur.firstTs
TsLess(ts, firstTs) == ts < firstTs

\* the body of the aggregation loop for record e
Put(map, e) ==
  CHOOSE r \in
    { MapSet(map, UpperCase(e.ticker),
             [count |-> cur.count + 1,
              firstTs |-> IF TsLess(e.ts, cur.firstTs) THEN e.ts ELSE cur.firstTs,
              firstLink |-> IF TsLess(e.ts, cur.firstTs) THEN e.link ELSE cur.firstLink,
              firstUserId |-> IF TsLess(e.ts, cur.firstTs) THEN e.user.id ELSE cur.firstUserId,
              firstUserName |-> IF TsLess(e.ts, cur.firstTs) THEN e.user.name
                                ELSE cur.firstUserName,
              lastTs |-> IF e.ts > cur.lastTs THEN e.ts ELSE cur.lastTs,
              lastLink |-> IF e.ts > cur.lastTs THEN e.link ELSE cur.lastLink])
      : cur \in {IF MapHas(map, UpperCase(e.ticker)) THEN MapGet(map, UpperCase(e.ticker))
                 ELSE NewCur} } : TRUE

\* for (const e of entries) { ... }: the aggregate of the first n records
RECURSIVE Aggregate(_, _)
Aggregate(entries, n) ==
  IF n = 0 THEN <<>>
  ELSE CHOOSE r \in {Put(map, entries[n]) : map \in {Aggregate(entries, n - 1)}} : TRUE

\* the records of a list that pass a test, in their order
RECURSIVE Filter(_, _, _)
Filter(entries, me, fromTs) ==
  IF entries = <<>> THEN <<>>
  ELSE IF /\ Head(entries).user.id = me
          /\ ~(fromTs # 0 /\ Head(entries).ts < fromTs)
       THEN <<Head(entries)>> \o Filter(Tail(entries), me, fromTs)
       ELSE Filter(Tail(entries), me, fromTs)

\* entries.filter((e) => isInMonth(...))
RECURSIVE FilterMonth(_)
FilterMonth(entries) ==
  IF entries = <<>> THEN <<>>
  ELSE IF isInMonth(Head(entries).ts) THEN <<Head(entries)>> \o FilterMonth(Tail(entries))
  ELSE FilterMonth(Tail(entries))

\* a leaderboard that counts a ticker for each user who mentioned it
CountMentioned(counts, v) == TRUE

\* if (!v.firstUserId) continue
CountFirst(counts, v) == v.firstUserId # ""

\* the body of the loop over byTicker for the aggregate v of a ticker
PutFirst(counts, v) ==
  IF ~CountFirst(counts, v) THEN counts
  ELSE CHOOSE r \in
         { MapSet(counts, v.firstUserId,
                  [name |-> IF e.name = "" /\ v.firstUserName # "" THEN v.firstUserName
                            ELSE e.name,
                   count |-> e.count + 1])
           : e \in {IF MapHas(counts, v.firstUserId) THEN MapGet(counts, v.firstUserId)
                    ELSE [name |-> v.firstUserName, count |-> 0]} } : TRUE

\* for (const [, v] of byTicker) { ... }: the counts of the first n tickers
RECURSIVE FirstByUserCounts(_, _)
FirstByUserCounts(byTicker, n) ==
  IF n = 0 THEN <<>>
  ELSE CHOOSE r \in
         {PutFirst(counts, byTicker[n].value) : counts \in {FirstByUserCounts(byTicker, n - 1)}} :
         TRUE

\* buildMonthAgg(entries)
buildMonthAgg(entries) ==
  CHOOSE r \in
    { [byTicker |-> byTicker, firstByUserCounts |-> FirstByUserCounts(byTicker, Len(byTicker))]
      : byTicker \in {Aggregate(FilterMonth(entries), Len(FilterMonth(entries)))} } : TRUE

\* JSON.parse(raw || "{}") throws: the content is not JSON
ParseThrows(raw) == raw.kind = "invalid"

\* Array.isArray(db) ? db : db.entries || [] after readFile(...).catch(() => "{}")
EntriesOfRaw(raw) == IF raw.kind \in {"object", "array"} THEN raw.entries ELSE <<>>

\* loadDb of tickersDashboard.mjs, then const { entries } = ...: entries is
\* undefined when the document has no entries field
DashboardEntries(raw) ==
  IF raw.kind \in {"missing", "invalid"}
  THEN [defined |-> TRUE, entries |-> <<>>]             \* catch: { entries: [] }
  ELSE IF raw.kind \in {"empty", "noentries"}
  THEN [defined |-> FALSE, entries |-> <<>>]            \* {}: no entries field
  ELSE [defined |-> TRUE, entries |-> raw.entries]

\* mapLimit called with these items never resolves: it has started no worker
NeverResolves(subset) ==
  StartWorkers([PoolIdle EXCEPT !.pc = "running", !.subset = subset]).running = {}

\* what a list command does with the tickers it has found
ListReply(op, raw, agg) ==
  IF ParseThrows(raw) THEN [NoReply EXCEPT !.op = op, !.pc = "threw"]
  ELSE [NoReply EXCEPT !.op = op, !.pc = "done", !.byTicker = agg,
                       !.sent = IF agg = <<>> THEN "nothing found" ELSE "list"]

\* a query is about to read some ledger file
InitQuery ==
  /\ posted = 0
  /\ up = FALSE
  /\ runs = 0
  /\ file = NoFile
  /\ gitHead = NoFile
  /\ writeQueue = <<>>
  /\ rejected = FALSE
  /\ live = NoLive
  /\ bf = BfIdle
  /\ readFails = 0
  /\ writeFails = 0
  /\ firstStart = NoId
  /\ advDone = {}
  /\ appDone = {}
  /\ completed = 0
  /\ idle = 0
  /\ tickersFile = TRUE
  /\ _tickerSet = FALSE
  /\ commitFails = 0
  /\ items = <<>>
  /\ pool = PoolIdle
  /\ text = <<>>
  /\ found = NotRun
  /\ \/ \E kind \in {"missing", "empty", "invalid", "noentries"} :
          dbRaw = [kind |-> kind, entries |-> <<>>]
     \/ \E kind \in {"object", "array"}, entries \in EntryLists(MaxEntries) :
          dbRaw = [kind |-> kind, entries |-> entries]
  /\ reply = NoReply
  /\ InitLog
  /\ InitAux

\* listAllTickers
ListAllTickers ==
  /\ reply.pc = "idle"
  /\ reply' = ListReply("all", dbRaw,
                        Aggregate(EntriesOfRaw(dbRaw), Len(EntriesOfRaw(dbRaw))))
  /\ UNCHANGED <<ledgerVars, gainerVars, extractVars, logVars, auxVars, dbRaw>>

\* listMyTickers of user me, from any date (fromTs = 0) or from a date on
ListMyTickers(me, fromTs) ==
  /\ reply.pc = "idle"
  /\ reply' = ListReply("my", dbRaw,
                        Aggregate(Filter(EntriesOfRaw(dbRaw), me, fromTs),
                                  Len(Filter(EntriesOfRaw(dbRaw), me, fromTs))))
  /\ UNCHANGED <<ledgerVars, gainerVars, extractVars, logVars, auxVars, dbRaw>>

\* the aggregates of the tickers that targetUser mentioned first
RECURSIVE FirstOf(_, _)
FirstOf(agg, wantedId) ==
  IF agg = <<>> THEN <<>>
  ELSE IF Head(agg).value.firstUserId = wantedId
       THEN <<Head(agg)>> \o FirstOf(Tail(agg), wantedId)
       ELSE FirstOf(Tail(agg), wantedId)

\* listFirstByUser for targetUser
ListFirstByUser(targetUser) ==
  /\ reply.pc = "idle"
  /\ reply' = ListReply("first", dbRaw,
                        FirstOf(Aggregate(EntriesOfRaw(dbRaw), Len(EntriesOfRaw(dbRaw))),
                                targetUser))
  /\ UNCHANGED <<ledgerVars, gainerVars, extractVars, logVars, auxVars, dbRaw>>

\* showTickersDashboard: entries.map throws when entries is undefined; the
\* preview of the gainers awaits computeGainers
ShowTickersDashboard ==
  /\ reply.pc = "idle"
  /\ reply' =
       IF ~DashboardEntries(dbRaw).defined
       THEN [NoReply EXCEPT !.op = "dashboard", !.pc = "threw"]
       ELSE CHOOSE r \in
              { [op |-> "dashboard",
                 pc |-> IF NeverResolves(agg.byTicker) THEN "awaiting" ELSE "done",
                 byTicker |-> agg.byTicker,
                 firstByUserCounts |-> agg.firstByUserCounts,
                 sent |-> IF NeverResolves(agg.byTicker) THEN "nothing" ELSE "dashboard"]
                : agg \in {buildMonthAgg(DashboardEntries(dbRaw).entries)} } : TRUE
  /\ UNCHANGED <<ledgerVars, gainerVars, extractVars, logVars, auxVars, dbRaw>>

NextQuery ==
  \/ ListAllTickers
  \/ \E me \in UserIds, fromTs \in {0, MonthStart} : ListMyTickers(me, fromTs)
  \/ \E targetUser \in UserIds : ListFirstByUser(targetUser)
  \/ ShowTickersDashboard

SpecQuery == InitQuery /\ [][NextQuery]_vars

\* ---- specifications ------------------------------------------------------------------
\* file reads and writes succeed
Next ==
  \/ Post
  \/ Start
  \/ Stop
  \/ \E m \in MsgIx : LiveStart(m)
  \/ \E m \in MsgIx : LiveCommit(m)
  \/ BfResolve
  \/ BfFetch
  \/ BfMessage
  \/ BfCommit
  \/ Load
  \/ AppendCycle
  \/ CheckpointCycle

Spec == Init /\ [][Next]_vars

\* the backfill on its own: the messages are posted while the process is down,
\* before its first start, so that no live handler runs
PostOffline == ~up /\ runs = 0 /\ Post

NextBackfill ==
  \/ PostOffline
  \/ Start
  \/ Stop
  \/ BfResolve
  \/ BfFetch
  \/ BfMessage
  \/ BfCommit
  \/ Load
  \/ AppendCycle
  \/ CheckpointCycle

SpecBackfill == Init /\ [][NextBackfill]_vars

\* every continuation that is ready runs (the event loop), every read, write
\* and fetch that was started completes; the operator may stop the process at
\* any time or leave it running
SpecBackfillFair ==
  /\ SpecBackfill
  /\ WF_vars(BfResolve)
  /\ WF_vars(BfFetch)
  /\ WF_vars(BfMessage)
  /\ WF_vars(BfCommit)
  /\ WF_vars(Load)
  /\ WF_vars(AppendCycle)
  /\ WF_vars(CheckpointCycle)

\* the backfill after a silence: days pass before the process first starts
Wait ==
  /\ ~up
  /\ runs = 0
  /\ idle < MaxIdle
  /\ idle' = idle + 1
  /\ UNCHANGED <<posted, up, runs, file, gitHead, writeQueue, rejected, live, bf,
                 readFails, writeFails, firstStart, advDone, appDone, completed,
                 tickersFile, _tickerSet, commitFails, gainerVars, extractVars, queryVars, logVars, auxVars>>

NextCutoff ==
  \/ NextBackfill
  \/ Wait

SpecCutoff == Init /\ [][NextCutoff]_vars

\* the operator removes all_tickers.txt
RemoveTickersFile ==
  /\ tickersFile
  /\ tickersFile' = FALSE
  /\ UNCHANGED <<posted, up, runs, file, gitHead, writeQueue, rejected, live, bf,
                 readFails, writeFails, firstStart, advDone, appDone, completed,
                 idle, _tickerSet, commitFails, gainerVars, extractVars, queryVars, logVars, auxVars>>

\* the process is started once and left running
FirstStart == runs = 0 /\ Start

\* one life of the process
NextOneLife ==
  \/ Post
  \/ FirstStart
  \/ \E m \in MsgIx : LiveStart(m)
  \/ \E m \in MsgIx : LiveCommit(m)
  \/ BfResolve
  \/ BfFetch
  \/ BfMessage
  \/ BfCommit
  \/ Load
  \/ AppendCycle
  \/ CheckpointCycle

\* the messages of the whole channel are there when the process first starts,
\* and a page holds more than one of them
PostAny == ~up /\ runs = 0 /\ PostUpTo(Len(Messages))

BfFetchWide == BfFetchWith(WidePage)

NextScan ==
  \/ PostAny
  \/ FirstStart
  \/ BfResolve
  \/ BfFetchWide
  \/ BfMessage
  \/ BfCommit
  \/ Load
  \/ AppendCycle
  \/ CheckpointCycle

SpecScan == Init /\ [][NextScan]_vars

\* one life of the process with a message that mentions the assistant
PostLive == PostUpTo(NLive)

NextAgree ==
  \/ PostLive
  \/ FirstStart
  \/ \E m \in AllMsgs : LiveStart(m)
  \/ \E m \in AllMsgs : LiveCommit(m)
  \/ BfResolve
  \/ BfFetch
  \/ BfMessage
  \/ BfCommit
  \/ Load
  \/ AppendCycle
  \/ CheckpointCycle

SpecAgree == Init /\ [][NextAgree]_vars

\* one life of the process, in which the reference file can disappear
NextTickers ==
  \/ NextOneLife
  \/ RemoveTickersFile

SpecTickers == Init /\ [][NextTickers]_vars

\* git fails (add, commit or push) in the commit of the live handler of message m
LiveCommitFail(m) ==
  /\ up
  /\ live[m] = "commit"
  /\ commitFails < MaxCommitFails
  /\ commitFails' = commitFails + 1
  /\ IF CommitRaises(TRUE)
     THEN /\ live' = [live EXCEPT ![m] = "failed"]
          /\ UNCHANGED writeQueue
     ELSE /\ writeQueue' = Append(writeQueue, CheckpointOp(m, m))
          /\ live' = [live EXCEPT ![m] = "cp"]
  /\ UNCHANGED <<posted, up, runs, file, gitHead, rejected, bf, readFails, writeFails,
                 firstStart, advDone, appDone, completed, idle, tickersFile, _tickerSet,
                 gainerVars, extractVars, queryVars, logVars, auxVars>>

\* git fails in the commit that ends the backfill run
BfCommitFail ==
  /\ up
  /\ bf.pc = "commit"
  /\ commitFails < MaxCommitFails
  /\ commitFails' = commitFails + 1
  /\ IF CommitRaises(TRUE)
     THEN /\ bf' = [bf EXCEPT !.pc = "failed"]
          /\ UNCHANGED completed
     ELSE /\ bf' = [bf EXCEPT !.pc = "done", !.commits = @ + 1]
          /\ completed' = completed + 1
  /\ UNCHANGED <<posted, up, runs, file, gitHead, writeQueue, rejected, live, readFails,
                 writeFails, firstStart, advDone, appDone, idle, tickersFile, _tickerSet,
                 gainerVars, extractVars, queryVars, logVars, auxVars>>

\* one life of the process, in which git can fail
NextCommitFault ==
  \/ NextOneLife
  \/ \E m \in MsgIx : LiveCommitFail(m)
  \/ BfCommitFail

SpecCommitFault == Init /\ [][NextCommitFault]_vars

\* a record written by an earlier version of the program
OldRecord ==
  [ticker |-> TSLA, user |-> "u2", messageId |-> ToDigits(7), channelId |-> GRAPHS,
   timestamp |-> 101]

\* ledger files of the legacy shape: a bare array of records
LegacyArrays == {<<>>, <<OldRecord>>, EntriesOf(1), <<OldRecord>> \o EntriesOf(1)}

LegacyFile(entries) ==
  [present |-> TRUE, array |-> TRUE,
   doc |-> [updated |-> 0, entries |-> entries, checkpoints |-> [c \in Channels |-> NoCp]]]

\* the program is installed over the ledger file of an earlier version
InstallLegacyFile ==
  /\ ~up
  /\ runs = 0
  /\ file = NoFile
  /\ \E entries \in LegacyArrays : file' = LegacyFile(entries)
  /\ UNCHANGED <<posted, up, runs, gitHead, writeQueue, rejected, live, bf,
                 readFails, writeFails, firstStart, advDone, appDone, completed,
                 idle, tickersFile, _tickerSet, commitFails, gainerVars, extractVars,
                 queryVars, logVars, auxVars>>

\* ledger files written while another channel was the ticker channel
OldCp == [lastProcessedId |-> ToDigits(7), lastProcessedAt |-> 101]

OldChannelFiles ==
  {saveDb([updated |-> 1, entries |-> entries,
           checkpoints |-> [c \in Channels |-> IF c = OLD THEN OldCp ELSE NoCp]]) :
     entries \in {<<>>, <<OldRecord>>}}

\* the process is pointed at a new ticker channel and keeps its ledger file
InstallOldChannelFile ==
  /\ ~up
  /\ runs = 0
  /\ file = NoFile
  /\ \E f \in OldChannelFiles : file' = f
  /\ UNCHANGED <<posted, up, runs, gitHead, writeQueue, rejected, live, bf,
                 readFails, writeFails, firstStart, advDone, appDone, completed,
                 idle, tickersFile, _tickerSet, commitFails, gainerVars, extractVars,
                 queryVars, logVars, auxVars>>

NextChannels ==
  \/ NextOneLife
  \/ InstallOldChannelFile

SpecChannels == Init /\ [][NextChannels]_vars

\* one life of the process over a legacy ledger file
NextLegacy ==
  \/ NextOneLife
  \/ InstallLegacyFile

SpecLegacy == Init /\ [][NextLegacy]_vars

\* the context log on its own
SpecLog == Init /\ [][NextLog]_vars

\* the reference data on its own
SpecCache == Init /\ [][NextCache]_vars

\* deleteAndRepost on its own
SpecMirror == Init /\ [][NextMirror]_vars

\* the message router on its own
SpecRouter == Init /\ [][NextRouter]_vars

\* file reads and writes can fail
NextFault ==
  \/ Next
  \/ LoadFail
  \/ BfResolveFail
  \/ PersistFail
  \/ SkipRejected

SpecFault == Init /\ [][NextFault]_vars

\* ---- properties ------------------------------------------------------------------------
StoredId == file.doc.checkpoints[GRAPHS].lastProcessedId

\* the operation is no longer chained on the queue q
Gone(op, q) == ~\E j \in DOMAIN q : q[j].owner = op.owner /\ q[j].kind = op.kind

Quiet == writeQueue = <<>> /\ \A m \in MsgIx : live[m] \in {"none", "done"}

\* message m is one the backfill ingests, and it mentions an accepted ticker
Eligible(m) == ~Messages[m].bot /\ ~Messages[m].mentionsBot /\ EntriesOf(m) # <<>>

\* C1: a failed persist is reported to the caller of the operation (its handler
\* ends failed), and every operation that leaves the queue of a running process
\* has run its own load-mutate-persist cycle: none is skipped.
C1_FailureDoesNotBlockQueue ==
  [][ /\ writeFails' > writeFails =>
           \/ bf'.pc = "failed"
           \/ \E m \in MsgIx : live'[m] = "failed" /\ live[m] # "failed"
      /\ \A i \in DOMAIN writeQueue :
           (up' /\ Gone(writeQueue[i], writeQueue')) => writeQueue[i].loaded ]_vars

\* C2: the ledger is append-only: a record that is in the persisted ledger is
\* still there, unchanged, after every step.
C2_AppendOnly ==
  [][ \A r \in Range(file.doc.entries) : r \in Range(file'.doc.entries) ]_vars

\* C3: once a backfill run has completed (and the live handlers have finished),
\* every eligible message that mentions an accepted ticker, with an id above the
\* first run's start point and at or below the persisted lastProcessedId, has its
\* records in the persisted ledger.
C3_NoDataLoss ==
  (bf.pc = "done" /\ Quiet) =>
    \A m \in 1..posted :
      (/\ Eligible(m)
       /\ BigInt(MsgIds[m]) > BigInt(firstStart)
       /\ BigInt(MsgIds[m]) <= BigInt(StoredId))
      => Range(EntriesOf(m)) \subseteq Range(file.doc.entries)

\* C4: the stored lastProcessedId is the numerically largest id of the advance
\* calls that have completed (none stored while none has completed).
C4_CheckpointIsMax ==
  IF advDone = {} THEN StoredId = NoId
  ELSE StoredId \in advDone /\ \A a \in advDone : BigInt(a) <= BigInt(StoredId)

\* two advances with ids of different decimal length have completed, the smaller
\* id handled by the backfill while the live handler's larger id is stored
C4_Witness ==
  /\ {MsgIds[1], MsgIds[2]} \subseteq advDone
  /\ Len(MsgIds[1]) # Len(MsgIds[2])
  /\ bf.afterId = MsgIds[1]
  /\ bf.scanned = 1
  /\ live[2] = "done"
  /\ StoredId = MsgIds[2]

\* C5: in every step the persisted lastProcessedId of a channel does not get
\* numerically smaller, and a checkpoint once stored does not disappear.
C5_CheckpointNeverRegresses ==
  [][ \A c \in Channels :
        file.doc.checkpoints[c].lastProcessedId # NoId =>
          /\ file'.doc.checkpoints[c].lastProcessedId # NoId
          /\ BigInt(file'.doc.checkpoints[c].lastProcessedId)
               >= BigInt(file.doc.checkpoints[c].lastProcessedId) ]_vars

\* C6: the persisted ledger holds at most one record per (messageId, ticker).
C6_UniqueKeys ==
  \A i, j \in DOMAIN file.doc.entries :
    i # j => Key(file.doc.entries[i]) # Key(file.doc.entries[j])

\* the backfill and the live handler have both appended the records of message 1
C6_Witness ==
  /\ \E i \in DOMAIN writeQueue :
       /\ writeQueue[i].owner = 0
       /\ writeQueue[i].kind = "checkpoint"
       /\ writeQueue[i].msg = 1
  /\ live[1] \in {"commit", "cp", "done"}
  /\ Range(EntriesOf(1)) \subseteq Range(file.doc.entries)

\* C7: when an append whose records are all in the persisted ledger completes,
\* the ledger file (entries, checkpoints, updated) is unchanged.
C7_NoNewRecordsNoWrite ==
  [][ \A i \in DOMAIN writeQueue :
        (/\ writeQueue[i].kind = "append"
         /\ writeQueue[i].loaded
         /\ Keys(writeQueue[i].entries) \subseteq Keys(file.doc.entries)
         /\ up'
         /\ Gone(writeQueue[i], writeQueue'))
        => file' = file ]_vars

\* the live handler of message 1 has appended its records and so has the
\* backfill of the same run: the later of the two appends added nothing
C7_Witness ==
  /\ live[1] = "commit"
  /\ bf.scanned = 1
  /\ bf.afterId = MsgIds[1]
  /\ Len(file.doc.entries) = Len(EntriesOf(1))

\* C8: at most one load-mutate-persist cycle is in progress, that of the oldest
\* operation on the queue.
C8_OneCycleInFlight ==
  \A i \in DOMAIN writeQueue : writeQueue[i].loaded => i = 1

\* a cycle is in progress while another operation waits behind it
C8_Witness == Len(writeQueue) >= 2 /\ writeQueue[1].loaded

\* C9: while no read or write fails, every record handed to a completed append is
\* in the persisted ledger and no completed checkpoint advance has been undone.
C9_NoLostUpdate ==
  /\ appDone \subseteq Range(file.doc.entries)
  /\ \A a \in advDone : BigInt(a) <= BigInt(StoredId)

\* operations of two callers are queued together after an append and an advance
\* have completed
C9_Witness ==
  /\ Len(writeQueue) >= 2
  /\ writeQueue[1].owner # writeQueue[2].owner
  /\ appDone # {}
  /\ advDone # {}

\* C10: a backfill run that found the checkpoint M fetches with a cursor at or
\* above M and handles only messages with an id above M.
C10_BackfillAfterCheckpoint ==
  (bf.startCp # NoId /\ bf.pc \notin {"idle", "resolve"}) =>
    /\ BigInt(bf.afterId) >= BigInt(bf.startCp)
    /\ \A k \in DOMAIN bf.page : BigInt(MsgIds[bf.page[k]]) > BigInt(bf.startCp)
    /\ \A i \in DOMAIN writeQueue :
         writeQueue[i].owner = 0 => BigInt(MsgIds[writeQueue[i].msg]) > BigInt(bf.startCp)

\* a run that resumed from a stored checkpoint is handling a fetched message
C10_Witness == bf.startCp # NoId /\ bf.pc \in {"append", "cp"}

\* ---- one uninterrupted backfill run, as a function of the channel -----------------
\* an operation carried out on the document db, with nothing in between
Apply(db, op) ==
  LET r == Mutate([op EXCEPT !.db = db, !.loaded = TRUE])
  IN IF r.save THEN r.db ELSE db

\* the body of the loop over a page, for message m
HandleMessage(db, m) ==
  IF Messages[m].bot \/ Messages[m].mentionsBot THEN db
  ELSE Apply(IF MsgTickers[m] # <<>> THEN Apply(db, AppendOp(0, m)) ELSE db,
             CheckpointOp(0, m))

RECURSIVE HandlePage(_, _)
HandlePage(db, page) ==
  IF page = <<>> THEN db ELSE HandlePage(HandleMessage(db, Head(page)), Tail(page))

\* the page loop from the cursor `after`
RECURSIVE RunPages(_, _)
RunPages(db, after) ==
  LET msgs == SortByTs(FetchAfter(after, PageLimit))
  IN IF msgs = <<>> THEN db
     ELSE RunPages(HandlePage(db, msgs), MsgIds[msgs[Len(msgs)]])

\* the document one run leaves when it starts without a ledger and is not stopped
UninterruptedRun == RunPages(EmptyDoc, ResolveStart(NoCp, Now))

\* C11 as stated: in a backfill run that follows a completed run, with no message
\* posted in between, no record is added to the ledger and commitDbIfChanged
\* is not called.
C11_SecondRunNoCommitCall ==
  [][ completed >= 1 =>
        /\ file'.doc.entries = file.doc.entries
        /\ bf'.commits = 0 ]_vars

\* C11, amended: in a backfill run that follows a completed run, with no message
\* posted in between, the ledger file does not change (no record is added, the
\* checkpoint stays), commitDbIfChanged is called once, at the end of the run,
\* and that call finds nothing to commit: the committed ledger does not change.
C11_SecondRunChangesNothing ==
  [][ completed >= 1 =>
        /\ file' = file
        /\ gitHead' = gitHead
        /\ bf'.commits <= 1
        /\ (bf'.commits = 1 <=> bf'.pc = "done") ]_vars

\* a second run has reached its end after a first run that stored records
C11_Witness ==
  /\ completed = 2
  /\ bf.pc = "done"
  /\ bf.commits = 1
  /\ bf.scanned = 0
  /\ file.doc.entries # <<>>
  /\ gitHead = file

\* C12: a backfill run has called commitDbIfChanged once when it has ended and
\* not at all before (so not after the append of a message it handles); and
\* when it calls it the page loop has ended and no operation the run queued is
\* on the write queue.
C12_CommitOnceAtEnd ==
  /\ bf.commits = (IF bf.pc = "done" THEN 1 ELSE 0)
  /\ bf.pc \in {"commit", "done"} =>
       /\ bf.page = <<>>
       /\ \A i \in DOMAIN writeQueue : writeQueue[i].owner # 0

\* a run that scanned two messages, a page each, has ended
C12_Witness == bf.pc = "done" /\ bf.scanned = 2 /\ bf.commits = 1

NonFailing == FilterBoolean([k \in DOMAIN pool.subset |-> Worker(pool.subset[k], pool.mode)])

\* x < y for two percent changes (NaN is not below or above anything)
PctLess(x, y) ==
  /\ x.kind # "nan" /\ y.kind # "nan"
  /\ \/ x.kind = "-inf" /\ y.kind # "-inf"
     \/ y.kind = "inf" /\ x.kind # "inf"
     \/ x.kind = "num" /\ y.kind = "num" /\ x.v < y.v

\* C15: for every candidate list, the empty list included, and whichever
\* lookups fail, computeGainers eventually returns.
C15_EventuallyReturns == <>(pool.pc = "returned")

\* C16: what computeGainers returns is the candidates whose lookup did not
\* fail, each once, and no entry of it stands before an entry with a greater
\* percent change.
C16_ReturnsNonFailingRanked ==
  pool.pc = "returned" =>
    /\ Len(pool.out) = Len(NonFailing)
    /\ Range(pool.out) = Range(NonFailing)
    /\ \A i, j \in DOMAIN pool.out : i < j => ~PctLess(pool.out[i].pct, pool.out[j].pct)

\* C17: the lookups in flight are the active workers, never more than the
\* limit, and while a candidate waits to be started every slot is taken: a
\* lookup that is slow or has failed holds back no candidate but by its slot.
C17_BoundedConcurrency ==
  /\ pool.active = Cardinality(pool.running)
  /\ pool.active <= Concurrency
  /\ (pool.pc = "running" /\ pool.i < Len(pool.subset)) => pool.active = Concurrency

\* the first lookup is still in flight, the second has failed, and the third
\* candidate has been started in its place
C17_Witness ==
  /\ pool.pc = "running"
  /\ Len(pool.subset) = 3
  /\ pool.running = {1, 3}
  /\ pool.results[2].kind = "null"

\* C18: every entry that computeGainers returns has a finite percent change
\* and was computed from a positive basis price and a positive latest price.
C18_FinitePositivePrices ==
  pool.pc = "returned" =>
    \A k \in DOMAIN pool.out :
      /\ pool.out[k].pct.kind = "num"
      /\ pool.out[k].basis > 0
      /\ pool.out[k].latest > 0

\* ---- properties of the extractor --------------------------------------------------
\* the matches of a pattern in the text, as exec returns them one after another
RECURSIVE Matches(_, _, _)
Matches(t, lastIndex, primary) ==
  CHOOSE r \in
    { IF m = NoMatch THEN <<>> ELSE <<m>> \o Matches(t, m.e + 1, primary)
      : m \in {Exec(t, lastIndex, primary)} } : TRUE

\* the candidates that a pattern produces from the text
CandidatesOf(t, primary) ==
  {Normalize(SubSeq(t, m.s, m.e)) : m \in Range(Matches(t, 1, primary))}

\* C19: a symbol that is in the ticker set and in the blacklist set is never
\* in the result of extractTickers, whichever pattern produced the candidate.
C19_BlacklistPrecedence ==
  found # NotRun => \A k \in DOMAIN found : found[k] \notin BlacklistSet

\* the primary pattern matches nothing in the text, the fallback pattern
\* produces a listed symbol and the blacklisted symbol B, and the result is
\* the listed symbol alone
C19_Witness ==
  /\ found = << <<"A">> >>
  /\ CandidatesOf(text, TRUE) = {}
  /\ <<"B">> \in CandidatesOf(text, FALSE) \cap TickerSet \cap BlacklistSet

\* the occurrences of a symbol in the text: the places where it stands,
\* in any case and spelling, with no letter or digit next to it
Occurrences(t, sym) ==
  {o \in (1..Len(t)) \X (1..Len(t)) :
     /\ o[1] <= o[2]
     /\ Normalize(SubSeq(t, o[1], o[2])) = sym
     /\ o[1] > 1 => ~AlphaNum(t[o[1] - 1])
     /\ o[2] < Len(t) => ~AlphaNum(t[o[2] + 1])}

\* the index of the last character of the dotted name (letters, digits, dots,
\* hyphens) that holds index e
RECURSIVE NameEnd(_, _)
NameEnd(t, e) ==
  IF e < Len(t) /\ (AlphaNum(t[e + 1]) \/ t[e + 1] \in JoinClass) THEN NameEnd(t, e + 1) ELSE e

\* an occurrence that is a fragment of a path or of a URL: a slash stands
\* right before it or right after it, or it is a label of a dotted host name
\* that a slash follows
IsFragment(t, o) ==
  \/ o[1] > 1 /\ t[o[1] - 1] = "/"
  \/ o[2] < Len(t) /\ t[o[2] + 1] = "/"
  \/ LET n == NameEnd(t, o[2])
     IN n > o[2] /\ n < Len(t) /\ t[n + 1] = "/"

\* C20: every symbol that extractTickers returns has an occurrence in the
\* text that is not a fragment of a path or of a URL.
C20_NoUrlFragments ==
  found # NotRun =>
    \A k \in DOMAIN found : \E o \in Occurrences(text, found[k]) : ~IsFragment(text, o)

\* C21: when the primary pattern matches a candidate in the text, accepted
\* or not, every symbol that extractTickers returns is a candidate of the
\* primary pattern (the fallback pattern has not been applied).
C21_FallbackOnlyWithoutPrimaryMatch ==
  (found # NotRun /\ CandidatesOf(text, TRUE) # {}) =>
    Range(found) \subseteq CandidatesOf(text, TRUE)

\* C22: the result of extractTickers has no symbol twice, and each of its
\* symbols is in the ticker set, has no lower-case letter and no hyphen.
C22_NormalizedOnce ==
  found # NotRun =>
    /\ \A i, j \in DOMAIN found : i # j => found[i] # found[j]
    /\ \A k \in DOMAIN found :
         /\ found[k] \in TickerSet
         /\ \A c \in DOMAIN found[k] : found[k][c] \notin LowerLetters \cup {"-"}

\* the share class with dollar sign, in lower case and with a hyphen, and
\* again in upper case with a dot, then the symbol A in lower case: each
\* symbol is in the result once, in upper case and with the dot
C22_Witness ==
  /\ text = <<"$", "a", "-", "b">> \o SPACE \o <<"A", ".", "b">> \o SPACE \o <<"a">>
  /\ found = << <<"A", ".", "B">>, <<"A">> >>

\* ---- properties of the queries -------------------------------------------------------
\* the records that an aggregation has gone over: all of them (listAllTickers)
\* or those of the month (the dashboard)
Aggregated ==
  IF reply.op = "dashboard" THEN FilterMonth(DashboardEntries(dbRaw).entries)
  ELSE EntriesOfRaw(dbRaw)

\* the places of the records of a ticker in a list
PlacesOf(list, sym) == {k \in DOMAIN list : list[k].ticker = sym}

\* the record of the ticker with the smallest (largest) time, the one met
\* first among those of equal time
EarliestOf(list, sym) ==
  list[CHOOSE k \in PlacesOf(list, sym) :
         \A j \in PlacesOf(list, sym) :
           list[k].ts < list[j].ts \/ (list[k].ts = list[j].ts /\ k <= j)]
LatestOf(list, sym) ==
  list[CHOOSE k \in PlacesOf(list, sym) :
         \A j \in PlacesOf(list, sym) :
           list[k].ts > list[j].ts \/ (list[k].ts = list[j].ts /\ k <= j)]

\* the tickers that have a record in a list
TickersOf(list) == {list[k].ticker : k \in DOMAIN list}

\* C23: the aggregation has one aggregate for each ticker that has a record;
\* its count is the number of the records of the ticker, its first mention
\* (time, link, user) is that of the record with the smallest time and its
\* last mention (time, link) that of the record with the largest time, the
\* record met first among records of equal time.
C23_AggregationFirstLast ==
  (reply.op \in {"all", "dashboard"} /\ reply.pc \in {"done", "awaiting"}) =>
    /\ {reply.byTicker[k].key : k \in DOMAIN reply.byTicker} = TickersOf(Aggregated)
    /\ \A i, j \in DOMAIN reply.byTicker :
         reply.byTicker[i].key = reply.byTicker[j].key => i = j
    /\ \A k \in DOMAIN reply.byTicker :
         LET sym == reply.byTicker[k].key
             v == reply.byTicker[k].value
             first == EarliestOf(Aggregated, sym)
             last == LatestOf(Aggregated, sym)
         IN /\ v.count = Cardinality(PlacesOf(Aggregated, sym))
            /\ v.firstTs = first.ts
            /\ v.firstLink = first.link
            /\ v.firstUserId = first.user.id
            /\ v.firstUserName = first.user.name
            /\ v.lastTs = last.ts
            /\ v.lastLink = last.link

\* three mentions of AAPL at times 2 < 3 < 4 by u1, u2, u1: count 3, first
\* mention by u1 at 2, last mention the record of time 4
C23_Witness ==
  /\ reply.op = "all"
  /\ dbRaw.entries = <<Entry(2, AAPL), Entry(3, AAPL), Entry(5, AAPL)>>
  /\ reply.byTicker =
       << [key |-> AAPL,
           value |-> [count |-> 3, firstTs |-> 2, firstLink |-> 2, firstUserId |-> "u1",
                      firstUserName |-> "n1", lastTs |-> 4, lastLink |-> 5]] >>

\* the count of a user in the leaderboard, 0 when the user is not in it
CountOf(counts, id) == IF MapHas(counts, id) THEN MapGet(counts, id).count ELSE 0

\* the sum of the counts of a leaderboard
RECURSIVE SumCounts(_)
SumCounts(counts) ==
  IF counts = <<>> THEN 0 ELSE Head(counts).value.count + SumCounts(Tail(counts))

\* C24: in the leaderboard of the dashboard the count of a user is the number
\* of tickers whose earliest record of the month is by that user, and the
\* counts sum to the number of tickers whose earliest record has an author.
C24_FirstMentionedCounts ==
  (reply.op = "dashboard" /\ reply.pc \in {"done", "awaiting"}) =>
    /\ \A k \in DOMAIN reply.firstByUserCounts : reply.firstByUserCounts[k].key \in UserIds
    /\ \A id \in UserIds :
         CountOf(reply.firstByUserCounts, id) =
           Cardinality({sym \in TickersOf(Aggregated) : EarliestOf(Aggregated, sym).user.id = id})
    /\ SumCounts(reply.firstByUserCounts) =
         Cardinality({sym \in TickersOf(Aggregated) : EarliestOf(Aggregated, sym).user.id # ""})

\* u1 is the first to mention AAPL and mentions it again, the first record of
\* TSLA has no author: u1 counts one ticker and the counts sum to one
C24_Witness ==
  /\ reply.op = "dashboard"
  /\ reply.pc = "done"
  /\ dbRaw.entries = <<Entry(2, AAPL), Entry(6, TSLA), Entry(5, AAPL)>>
  /\ CountOf(reply.firstByUserCounts, "u1") = 1
  /\ SumCounts(reply.firstByUserCounts) = 1

\* the ledger file holds no records: it is missing, empty, not JSON, or an
\* object without entries
BadLedgerFile == dbRaw.kind \in {"missing", "empty", "invalid", "noentries"}

\* C26: with such a ledger file every query completes, raising nothing, and
\* reports an empty result.
C26_QueriesSurviveBadFile ==
  (BadLedgerFile /\ reply.pc # "idle") =>
    /\ reply.pc = "done"
    /\ reply.byTicker = <<>>
    /\ reply.sent \in {"nothing found", "dashboard"}

\* ---- properties of the lookback cutoff ------------------------------------------
\* the cutoff of a run without checkpoint: Date.now() - lookbackDays
Cutoff == Now - Lookback

\* the messages a run has handed to the store (a bot message or one that
\* addresses the assistant is scanned without being handed over)
Advanced == {m \in 1..posted : MsgIds[m] \in advDone}

NoCheckpointRunDone == up /\ bf.pc = "done" /\ bf.startCp = NoId

\* C30 (as stated): a run that found no checkpoint scans every message
\* created at or after now - lookbackDays and none created before it.
C30_ScansFromCutoff ==
  NoCheckpointRunDone =>
    /\ bf.scanned = Cardinality({m \in 1..posted : Messages[m].ts >= Cutoff})
    /\ \A m \in Advanced : Messages[m].ts >= Cutoff

\* C30 (amended): a run that found no checkpoint scans exactly the messages
\* whose id is above the synthetic start id, that is the messages created
\* after the cutoff and those created at the cutoff whose low id bits are not
\* all zero; it scans no message created before the cutoff.
C30_ScansAboveSyntheticId ==
  NoCheckpointRunDone =>
    /\ bf.scanned = Cardinality({m \in 1..posted :
                       \/ Messages[m].ts > Cutoff
                       \/ Messages[m].ts = Cutoff /\ Messages[m].inc > 0})
    /\ \A m \in Advanced : Messages[m].ts >= Cutoff
    /\ \A m \in 1..posted :
         BigInt(MsgIds[m]) > BigInt(snowflakeFromTsMs(Cutoff)) <=>
           \/ Messages[m].ts > Cutoff
           \/ Messages[m].ts = Cutoff /\ Messages[m].inc > 0

\* the cutoff falls on the creation time of the newest message, whose id has
\* low bits set: it is scanned and the older message is not
C30_Witness ==
  /\ NoCheckpointRunDone
  /\ posted = 2
  /\ Messages[2].ts = Cutoff
  /\ bf.scanned = 1
  /\ Advanced = {2}
\* ---- properties of the reference file ---------------------------------------------
\* the live handler of message m runs up to its first await
HandledLive(m) == up /\ up' /\ live[m] = "start" /\ live'[m] # "start"

\* the backfill hands the message at the head of its page to the handler
HandledBackfill ==
  /\ up /\ up'
  /\ bf.pc = "msg" /\ bf'.pc # "msg"
  /\ ~Messages[Head(bf.page)].bot
  /\ ~Messages[Head(bf.page)].mentionsBot
  /\ Messages[Head(bf.page)].content # <<>>

\* the handling failed and left the store and its queue as they were
FailedLive(m) ==
  /\ live'[m] = "failed"
  /\ writeQueue' = writeQueue
  /\ file' = file

FailedBackfill ==
  /\ bf'.pc = "failed"
  /\ writeQueue' = writeQueue
  /\ file' = file

\* C27 (as stated): while the ticker reference file is missing, handling a
\* message with text fails, nothing is appended and no checkpoint advance
\* is queued for it.
C27_MissingFileFails ==
  [][~tickersFile =>
       /\ \A m \in MsgIx : HandledLive(m) => FailedLive(m)
       /\ HandledBackfill => FailedBackfill]_vars

\* C27 (amended): while the ticker reference file is missing and the process
\* has not loaded the ticker set before, handling a message with text fails,
\* nothing is appended and no checkpoint advance is queued for it.
C27_MissingFileFailsUncached ==
  [][~tickersFile /\ ~_tickerSet =>
       /\ \A m \in MsgIx : HandledLive(m) => FailedLive(m)
       /\ HandledBackfill => FailedBackfill]_vars

\* the file was missing from the start: the backfill failed on message 1, the
\* live handler of message 2 failed, and no ledger file was written
C27_Witness ==
  /\ up
  /\ ~tickersFile /\ ~_tickerSet
  /\ bf.pc = "failed"
  /\ live[2] = "failed"
  /\ file = NoFile
  /\ writeQueue = <<>>
\* ---- properties of the commit --------------------------------------------------------
\* the records of message m are in the ledger file
Persisted(m) == Range(EntriesOf(m)) \subseteq Range(file.doc.entries)

IsPrefix(s, t) == Len(s) <= Len(t) /\ SubSeq(t, 1, Len(s)) = s

IsLegacy(f) == f.present /\ f.array

\* an operation of the queue loads the legacy file: its document has the
\* array as entries and no checkpoint
LoadsLegacy ==
  \A i \in DOMAIN writeQueue :
    i \in DOMAIN writeQueue' /\ ~writeQueue[i].loaded /\ writeQueue'[i].loaded =>
      /\ writeQueue'[i].db.entries = file.doc.entries
      /\ writeQueue'[i].db.checkpoints[GRAPHS] = NoCp

\* the backfill run loads the legacy file: it finds no checkpoint
ResolvesLegacy == bf.pc = "resolve" /\ bf'.pc = "fetch" => bf'.startCp = NoId

\* the file is written in the object shape, the legacy records first
Upgraded == ~file'.array /\ file'.present /\ IsPrefix(file.doc.entries, file'.doc.entries)

\* an append or a checkpoint advance completes
Completes == appDone' # appDone \/ advDone' # advDone

\* an append that adds a record, or a checkpoint advance, completes
CompletesWithChange ==
  \/ advDone' # advDone
  \/ \E e \in appDone' \ appDone : Key(e) \notin Keys(file.doc.entries)

\* C25 (as stated): a load of a bare-array ledger file yields the array as
\* entries and no checkpoint, and the next append or checkpoint advance that
\* completes writes the object shape with every legacy record retained.
C25_LegacyUpgradedByNextOperation ==
  [][IsLegacy(file) =>
       /\ LoadsLegacy
       /\ ResolvesLegacy
       /\ file' # file => Upgraded
       /\ Completes => file' # file]_vars

\* C25 (amended): a load of a bare-array ledger file yields the array as
\* entries and no checkpoint, every write of the file is in the object shape
\* with every legacy record retained, and the next append that adds a record
\* or the next checkpoint advance that completes is such a write.
C25_LegacyUpgradedByNextWrite ==
  [][IsLegacy(file) =>
       /\ LoadsLegacy
       /\ ResolvesLegacy
       /\ file' # file => Upgraded
       /\ CompletesWithChange => file' # file]_vars

\* the ledger file is in the object shape and holds the legacy record, the
\* records of a message handled since, and a checkpoint
C25_Witness ==
  /\ file.present /\ ~file.array
  /\ Len(file.doc.entries) >= 2
  /\ file.doc.entries[1] = OldRecord
  /\ StoredId # NoId
\* ---- properties of the context log ---------------------------------------------------
\* the run writes the records of a bucket
BackfillWrites == logRun.pc = "write" /\ logRun'.pc = "write" /\ logRun'.w # logRun.w

\* the bucket the run has just written
WrittenBucket == logRun.buckets[logRun'.w - 1]

Distinct(records) ==
  \A i, j \in DOMAIN records : i # j => LinkId(records[i].msgLink) # LinkId(records[j].msgLink)

\* a run after the first ends, with no message posted and no live append
\* since the first run started: it has written no record
LaterRunWritesNothing ==
  logRun.pc = "write" /\ logRun'.pc = "done" /\ logRun.n >= 2 /\ ~logRun.disturbed =>
    logRun.total = 0

\* C29 (as stated): the run never writes a record whose message id is in the
\* day file it writes to, or twice in one run; a second run in a row writes
\* no record.
C29_NeverWritesPresentId ==
  [][/\ BackfillWrites =>
          /\ IdsIn(WrittenBucket.records) \cap IdsIn(logFiles[WrittenBucket.key]) = {}
          /\ Distinct(WrittenBucket.records)
     /\ LaterRunWritesNothing]_vars

\* C29 (amended): the run never writes a record whose message id was in the
\* day file when the run read that file, or twice in one run; a second run
\* in a row writes no record.
C29_NeverWritesIdReadFromFile ==
  [][/\ BackfillWrites =>
          /\ IdsIn(WrittenBucket.records) \cap WrittenBucket.loaded = {}
          /\ Distinct(WrittenBucket.records)
          /\ logFiles'[WrittenBucket.key] = logFiles[WrittenBucket.key] \o WrittenBucket.records
     /\ LaterRunWritesNothing]_vars

\* the second run in a row has ended without writing: every record of the
\* files was written by the first run, which met two messages of one day
C29_Witness ==
  /\ logRun.pc = "done"
  /\ logRun.n = 2
  /\ ~logRun.disturbed
  /\ logRun.total = 0
  /\ \A m \in LogIx : logLive[m] = "none"
  /\ \E d \in LogDays : Len(logFiles[d]) = 2
  /\ \E i \in DOMAIN logRun.buckets : Cardinality(logRun.buckets[i].loaded) = 2
\* ---- properties of the reference data --------------------------------------------
\* caller c calls loadTickerSet with this path
Calls(c, path) == refLog'.calls # refLog.calls /\ refLog'.last = <<c, path>>

\* C31: a call of loadTickerSet with the path of the cached set returns that
\* set and reads no file; a call with another path reads the file at that
\* path (or fails when it is missing) and a read that settles replaces the
\* cache by the set and path it read; the blacklist set, once built, never
\* changes and no later call builds it again.
C31_CachedUntilPathChanges ==
  [][/\ \A c \in Callers, path \in Paths :
          Calls(c, path) =>
            /\ tickerCache' = tickerCache
            /\ refLog'.reads = refLog.reads
            /\ IF tickerCache.filled /\ tickerCache.path = path
               THEN loads'[c].pc = "returned" /\ loads'[c].result = tickerCache.set
               ELSE loads'[c].pc = IF refFiles[path].exists THEN "reading" ELSE "threw"
     /\ tickerCache' # tickerCache =>
          /\ refLog'.reads = refLog.reads + 1
          /\ \E c \in Callers :
               /\ loads[c].pc = "reading"
               /\ ~loads[c].hit
               /\ tickerCache' = [filled |-> TRUE, set |-> ParseTickers(refFiles[loads[c].path].txt),
                                  path |-> loads[c].path]
     /\ blacklistCache.filled =>
          /\ blacklistCache' = blacklistCache
          /\ refLog'.builds = refLog.builds]_vars

\* the set of path p1 was cached, the file at p1 was changed, a call with p1
\* returned the cached set, a call with p2 then read the file at p2
C31_Witness ==
  /\ tickerCache.filled /\ tickerCache.path = "p2"
  /\ refLog.reads = 2
  /\ refLog.calls = 3
  /\ \E c \in Callers :
       /\ loads[c].pc = "returned" /\ loads[c].hit /\ loads[c].path = "p1"
       /\ loads[c].result # ParseTickers(refFiles["p1"].txt)

\* ---- the day file of a context-log record ---------------------------------------
\* C32: every record of a day file, written by a live append or by the log
\* backfill, is the record of a message created on that day of the fixed
\* time zone.
C32_RecordInFileOfCreationDay ==
  \A d \in LogDays : \A i \in DOMAIN logFiles[d] :
    israelDateString(logFiles[d][i].createdAt) = d

\* ---- the loop of the backfill -----------------------------------------------------
\* one turn of the for loop of runBackfillOnce, on message m
Turn(m) == up /\ up' /\ bf.pc = "msg" /\ Head(bf.page) = m /\ bf' # bf

\* message m is from an automated account or addresses the assistant
Passed(m) == Messages[m].bot \/ Messages[m].mentionsBot

\* the records of message m in the ledger file
RecordsOf(m) == {i \in DOMAIN file.doc.entries : file.doc.entries[i].messageId = MsgIds[m]}

\* C33: the turn of the backfill loop on a message from an automated account
\* or one that addresses the assistant queues no append and no checkpoint
\* advance and writes nothing, moves the cursor to the id of the message and
\* counts it as scanned; the ledger never holds a record of such a message and
\* no checkpoint advance is ever made for it.
C33_PassedOverButScanned ==
  /\ [](\A m \in AllMsgs : Passed(m) => RecordsOf(m) = {} /\ MsgIds[m] \notin advDone)
  /\ [][\A m \in AllMsgs :
          Turn(m) /\ Passed(m) =>
            /\ writeQueue' = writeQueue
            /\ file' = file
            /\ bf'.afterId = MsgIds[m]
            /\ bf'.scanned = bf.scanned + 1]_vars

\* the run has passed over the message that addresses the assistant and over
\* the message of the bot and has ended
C33_Witness ==
  /\ bf.pc = "done"
  /\ posted = Len(Messages)
  /\ BigInt(bf.afterId) >= BigInt(MsgIds[4])
  /\ RecordsOf(3) = {} /\ RecordsOf(4) = {} /\ RecordsOf(1) # {}
  /\ file.doc.checkpoints[GRAPHS].lastProcessedId = MsgIds[Len(Messages)]

\* the messages after the point the run started from
AfterStart == {m \in 1..posted : BigInt(MsgIds[m]) > BigInt(firstStart)}

\* C34: every turn of the backfill loop is on a message with an id above the
\* cursor (the id of the message of the turn before), so that no message is
\* scanned twice, and a run that ends has scanned as many messages as there
\* are after its start point.
C34_StrictlyIncreasingIds ==
  /\ [](bf.pc = "done" => bf.scanned = Cardinality(AfterStart))
  /\ [][\A m \in AllMsgs : Turn(m) => BigInt(MsgIds[m]) > BigInt(bf.afterId)]_vars

\* ---- live ingestion and backfill ---------------------------------------------------
\* what a step hands to the write queue: the records to append and the
\* message the checkpoint is to advance to
NothingQueued == [entries |-> <<>>, advance |-> NoId]

Queued ==
  IF Len(writeQueue') = Len(writeQueue) + 1
  THEN [entries |-> writeQueue'[Len(writeQueue')].entries,
        advance |-> MsgIds[writeQueue'[Len(writeQueue')].msg]]
  ELSE NothingQueued

\* the records of message m and the advance to its id
OutcomeOf(m) == [entries |-> EntriesOf(m), advance |-> MsgIds[m]]

\* C36: for a message with text that is not from an automated account, the
\* live handler and the turn of the backfill loop hand the same to the write
\* queue: the records of the message and the advance of the checkpoint to
\* its id.
C36_LiveAndBackfillAgree ==
  [][\A m \in AllMsgs :
       ~Messages[m].bot /\ Messages[m].content # <<>> =>
         /\ HandledLive(m) => Queued = OutcomeOf(m)
         /\ Turn(m) => Queued = OutcomeOf(m)]_vars

\* ---- what a write leaves alone ------------------------------------------------------
\* the operation at the head of the queue, of this kind, writes the file
Writes(kind) ==
  /\ up
  /\ file' # file
  /\ writeQueue # <<>>
  /\ writeQueue[1].loaded
  /\ writeQueue[1].kind = kind

\* the document the file holds
Held == loadDb(file, FALSE)

\* C37: the write of a checkpoint advance leaves the checkpoint of every
\* other channel and the entries as the file held them; the write of an
\* append leaves every checkpoint as the file held it.
C37_WritesLeaveTheRestAlone ==
  [][/\ Writes("checkpoint") =>
          /\ \A c \in Channels \ {writeQueue[1].channelId} :
               file'.doc.checkpoints[c] = Held.checkpoints[c]
          /\ file'.doc.entries = Held.entries
     /\ Writes("append") => file'.doc.checkpoints = Held.checkpoints]_vars

\* the checkpoint of the old channel and the old record are in the file
\* beside a record and the checkpoint of the ticker channel
C37_Witness ==
  /\ file.present
  /\ file.doc.checkpoints[OLD] = OldCp
  /\ file.doc.checkpoints[GRAPHS].lastProcessedId = MsgIds[2]
  /\ file.doc.entries = <<OldRecord>> \o EntriesOf(1) \o EntriesOf(2)

\* ---- deleteAndRepost: what is kept ------------------------------------------------
\* C35: the original goes only when its audit copy is in the log channel, the
\* audit copy goes only when the repost is there, so that one of the three is
\* always there; a call in which the repost failed ends with the audit copy
\* kept, the failure logged and the error raised.
C35_NeverLosesTheMessage ==
  /\ [](\A i \in Mirrored :
          /\ mirror[i].original \/ mirror[i].audit \/ mirror[i].repost
          /\ mirror[i].raised = "repost failed" /\ mirror[i].pc = "threw" =>
               mirror[i].audit /\ mirror[i].logged /\ ~mirror[i].repost)
  /\ [][\A i \in Mirrored :
          /\ mirror[i].original /\ ~mirror'[i].original => mirror[i].audit
          /\ mirror[i].audit /\ ~mirror'[i].audit => mirror[i].repost
          /\ mirror[i].pc = "repost" /\ mirror'[i] # mirror[i] /\ ~mirror'[i].repost =>
               mirror'[i].pc = "logFailure" /\ mirror'[i].logged]_vars

\* one call has ended with the repost in place of the original and the audit
\* copy gone, another with a failed repost and the audit copy kept
C35_Witness ==
  \E i \in Mirrored, j \in Mirrored :
    /\ mirror[i].pc = "returned" /\ mirror[i].repost /\ ~mirror[i].audit /\ ~mirror[i].original
    /\ mirror[j].pc = "threw" /\ mirror[j].raised = "repost failed"
    /\ mirror[j].audit /\ ~mirror[j].original /\ ~mirror[j].reported

\* ---- the message router: where a message goes ------------------------------------
Handlers ==
  {"listMyTickers", "listAllTickers", "showTickersDashboard", "listFirstByUser",
   "handleTodaysEarnings", "handleAnticipatedImage", "askGemini", "sendHelp"}

\* C38: a message from a webhook or a bot reaches neither the ingestion of
\* tickers nor the context log nor a command handler; a message in the ticker
\* channel is ingested at most once and reaches no command of the bot room
\* and no question answering.
C38_RouterKeepsPathsApart ==
  /\ route.msg.webhook \/ route.msg.bot =>
       /\ route.ingested = 0
       /\ route.reached \cap ({"handleGraphChannelMessage", "deleteAndRepost", "appendToLog"}
                              \cup Handlers) = {}
  /\ route.msg.channel = GRAPHS =>
       /\ route.ingested <= 1
       /\ route.reached \cap Handlers = {}

\* a message of a user with a command phrase that mentions the assistant, in
\* the ticker channel, which is also a chat room and where reposting is on,
\* has been logged, ingested and reposted and the handler has ended
C38_Witness ==
  /\ route.pc = "done"
  /\ route.msg.channel = GRAPHS /\ ~route.msg.bot /\ ~route.msg.webhook
  /\ route.msg.mentionsBot /\ route.msg.text = "tickers"
  /\ route.ingested = 1
  /\ route.reached = {"appendToLog", "handleGraphChannelMessage", "deleteAndRepost"}
====
